---- MODULE Spec2Model ----
(***************************************************************************)
(* CardDemo API: the request pipeline (error handler, rate limiter, route  *)
(* handler) and the database retry engine, modelled from the Python        *)
(* sources under src/carddemo-api.                                         *)
(*                                                                         *)
(* Strings whose content the code inspects (paths, exception messages) are *)
(* tuples of one-character strings, so that `in` and lower() are computed. *)
(* Time is counted in whole seconds; time.time() is taken non-decreasing.  *)
(* uuid.uuid4() is taken collision-free: the n-th call returns Uuid(n).    *)
(***************************************************************************)
EXTENDS Integers, Sequences, FiniteSets, TLC

\* ------------------------------------------------------------------------
\* Bounds of the model
\* ------------------------------------------------------------------------
MaxReq == 2
MaxErrReq == 2
MaxTicks == 1
MaxCalls == 2
MaxErrors == 2
MaxAuthTicks == 2
MaxAuthReqs == 3
MaxDataReqs == 3

Reqs == 1..MaxReq
ErrReqs == 1..MaxErrReq
AllReqs == Reqs \cup ErrReqs
IPs == {"ipA", "ipB"}
TickSteps == {10, 60, 3600, 3601}

\* RateLimitMiddleware(calls_per_minute, calls_per_hour, burst_limit) as constructed
Configs == {[cpm |-> 1, cph |-> 2, bl |-> 1],
            [cpm |-> 2, cph |-> 2, bl |-> 2],
            [cpm |-> 6, cph |-> 1, bl |-> 1],
            [cpm |-> 6, cph |-> 2, bl |-> 1]}

\* ------------------------------------------------------------------------
\* Program constants
\* ------------------------------------------------------------------------
cleanup_interval == 300
BURST_WINDOW == 10
MINUTE_WINDOW == 60
HOUR_WINDOW == 3600
AUTH_LIMIT_CAP == 10
AUTH_LIMIT_DIV == 6

PathAuthLogin == <<"/","a","u","t","h","/","l","o","g","i","n">>
PathAuthLogout == <<"/","a","u","t","h","/","l","o","g","o","u","t">>
PathAuthMe == <<"/","a","u","t","h","/","m","e">>
PathCards == <<"/","c","a","r","d","s">>

sensitive_patterns == {PathAuthLogin, PathAuthLogout, PathAuthMe}

\* the request paths of the model, by name, and request.url.path of each
Paths == {"cards", "login"}
url_path(p) == IF p = "login" THEN PathAuthLogin ELSE PathCards

\* ------------------------------------------------------------------------
\* Python helpers
\* ------------------------------------------------------------------------
\* `sub in s` for Python strings
Contains(s, sub) ==
    \E i \in 0..(Len(s) - Len(sub)) :
        \A j \in 1..Len(sub) : s[i + j] = sub[j]

Max(a, b) == IF a >= b THEN a ELSE b
Min(a, b) == IF a <= b THEN a ELSE b

\* dict: a function whose domain is the set of keys present
EmptyDict == [k \in {} |-> <<>>]

\* defaultdict(deque).__getitem__: a missing key is inserted with deque()
DefaultGet(d, k) == IF k \in DOMAIN d THEN d ELSE [x \in DOMAIN d \cup {k} |-> IF x = k THEN <<>> ELSE d[x]]

\* dict.get(key, [])
DictGet(d, k) == IF k \in DOMAIN d THEN d[k] ELSE <<>>

\* the eviction loop with `>=` for `>`
RECURSIVE PopStaleAtHorizon(_, _, _)
PopStaleAtHorizon(q, current_time, horizon) ==
    IF q # <<>> /\ current_time - Head(q) >= horizon
    THEN PopStaleAtHorizon(Tail(q), current_time, horizon)
    ELSE q

\* while requests and current_time - requests[0] > horizon: requests.popleft()
RECURSIVE PopStale(_, _, _)
PopStale(q, current_time, horizon) ==
    IF q # <<>> /\ current_time - Head(q) > horizon
    THEN PopStale(Tail(q), current_time, horizon)
    ELSE q

\* f"{client_ip}:burst", f"{client_ip}:minute", f"{client_ip}:hour"
minute_keyShared(client_ip) == <<"*", "minute">>
burst_key(client_ip) == <<client_ip, "burst">>
minute_key(client_ip) == <<client_ip, "minute">>
hour_key(client_ip) == <<client_ip, "hour">>

\* ------------------------------------------------------------------------
\* Correlation identifiers
\* ------------------------------------------------------------------------
Uuid(n) == <<"uuid4", n>>
UNKNOWN_CID == <<"unknown">>
NoCid == <<>>

\* one identifier generated once and reused
NewCorrelationIdReused(n) == Uuid(0)

\* correlation_id = str(uuid.uuid4()) in ErrorHandlerMiddleware.dispatch
NewCorrelationId(n) == Uuid(n)

\* a lookup that never finds the attribute
StateCidMissing(state_cid, default) == default

\* getattr(request.state, 'correlation_id', default)
StateCid(state_cid, default) == IF state_cid = NoCid THEN default ELSE state_cid

\* ------------------------------------------------------------------------
\* State
\* ------------------------------------------------------------------------
VARIABLES
    now,              \* time.time()
    ticks,            \* number of clock advances so far
    calls_per_minute, calls_per_hour, burst_limit,   \* RateLimitMiddleware configuration
    burst_requests, minute_requests, hour_requests,  \* the three defaultdict(deque)
    last_cleanup,
    pc,               \* position of each request in the middleware stack
    client_ip, path,  \* inputs of each request
    state_cid,        \* request.state.correlation_id
    resp,             \* response sent to the client
    forwarded,        \* the route handler was entered
    next_uuid,        \* number of uuid4() calls so far
    raised,           \* what the route handler of each request returned or raised
    rl_log            \* history: verdicts of the rate limiter, in order

pipelineVars == <<now, ticks, calls_per_minute, calls_per_hour, burst_limit,
                  burst_requests, minute_requests, hour_requests, last_cleanup,
                  pc, client_ip, path, state_cid, resp, forwarded, next_uuid,
                  raised, rl_log>>

cfgVars == <<calls_per_minute, calls_per_hour, burst_limit>>
windowVars == <<burst_requests, minute_requests, hour_requests, last_cleanup>>

\* the fixed messages of the error envelopes
MSG_RATE_LIMIT == <<"Demasiadas solicitudes. Intente nuevamente mas tarde.">>
MSG_DATABASE == <<"Error interno del servidor - problema de base de datos">>
MSG_INTERNAL == <<"Error interno del servidor">>
MSG_VALIDATION == <<"Los datos proporcionados no son validos">>

NoResp == [status |-> 0, code |-> "", message |-> <<>>, details |-> 0,
           www_authenticate |-> "", hdr_cid |-> NoCid, body_cid |-> NoCid,
           retry_after |-> -1, remaining_minute |-> -1, remaining_hour |-> -1]

NoExc == "none"

\* the route handler has not run
NoOutcome == [handler |-> "", kind |-> "none", status_code |-> 0, detail |-> <<>>,
              headers |-> "", errors |-> 0, text |-> ""]

\* ------------------------------------------------------------------------
\* RateLimitMiddleware
\* ------------------------------------------------------------------------
_is_sensitive_endpoint(p) == \E pattern \in sensitive_patterns : Contains(url_path(p), pattern)

\* auth_limit = min(10, self.calls_per_minute // 6)
auth_limit(cpm) == Min(AUTH_LIMIT_CAP, cpm \div AUTH_LIMIT_DIV)

\* a window against its cap: `len(requests) >= limit`
ExceedsOffByOne(n, limit) == n > limit
Exceeds(n, limit) == n >= limit

\* the window of one key with its eviction loop left out
TrimWindowKeepStale(d, k, current_time, horizon) == DefaultGet(d, k)

\* the eviction loop applied to the window of one key
TrimWindow(d, k, current_time, horizon) ==
    LET d1 == DefaultGet(d, k)
    IN [d1 EXCEPT ![k] = PopStale(@, current_time, horizon)]

\* _is_rate_limited: the verdict and the dictionaries it leaves behind
_is_rate_limited(B, M, H, cpm, cph, bl, ip, p, current_time) ==
    LET B1 == TrimWindow(B, burst_key(ip), current_time, BURST_WINDOW)
    IN IF Exceeds(Len(B1[burst_key(ip)]), bl)
       THEN [limited |-> TRUE, burst |-> B1, minute |-> M, hour |-> H]
       ELSE
       LET M1 == TrimWindow(M, minute_key(ip), current_time, MINUTE_WINDOW)
       IN IF Exceeds(Len(M1[minute_key(ip)]), cpm)
          THEN [limited |-> TRUE, burst |-> B1, minute |-> M1, hour |-> H]
          ELSE
          LET H1 == TrimWindow(H, hour_key(ip), current_time, HOUR_WINDOW)
          IN IF Exceeds(Len(H1[hour_key(ip)]), cph)
             THEN [limited |-> TRUE, burst |-> B1, minute |-> M1, hour |-> H1]
             ELSE IF _is_sensitive_endpoint(p) /\ Exceeds(Len(M1[minute_key(ip)]), auth_limit(cpm))
                  THEN [limited |-> TRUE, burst |-> B1, minute |-> M1, hour |-> H1]
                  ELSE [limited |-> FALSE, burst |-> B1, minute |-> M1, hour |-> H1]

\* one of the three appends of _record_request
RecordIn(d, k, current_time) ==
    LET d1 == DefaultGet(d, k)
    IN [d1 EXCEPT ![k] = Append(@, current_time)]

\* _record_request without its third append
_record_requestNoHour(W, ip, current_time) ==
    [burst |-> RecordIn(W.burst, burst_key(ip), current_time),
     minute |-> RecordIn(W.minute, minute_key(ip), current_time),
     hour |-> W.hour]

\* _record_request
_record_request(W, ip, current_time) ==
    [burst |-> RecordIn(W.burst, burst_key(ip), current_time),
     minute |-> RecordIn(W.minute, minute_key(ip), current_time),
     hour |-> RecordIn(W.hour, hour_key(ip), current_time)]

\* one of the three loops of _cleanup_old_requests: trim every key, delete the empty ones
CleanupDict(d, current_time, horizon) ==
    LET keep == {k \in DOMAIN d : PopStale(d[k], current_time, horizon) # <<>>}
    IN [k \in keep |-> PopStale(d[k], current_time, horizon)]

\* _cleanup_old_requests
_cleanup_old_requests(W, current_time) ==
    [burst |-> CleanupDict(W.burst, current_time, BURST_WINDOW),
     minute |-> CleanupDict(W.minute, current_time, MINUTE_WINDOW),
     hour |-> CleanupDict(W.hour, current_time, HOUR_WINDOW)]

\* _create_rate_limit_response
_create_rate_limit_response(scid) ==
    LET correlation_id == StateCid(scid, UNKNOWN_CID)
    IN [NoResp EXCEPT !.status = 429, !.code = "RATE_LIMIT_EXCEEDED",
                      !.message = MSG_RATE_LIMIT,
                      !.hdr_cid = correlation_id, !.body_cid = correlation_id,
                      !.retry_after = 60]

\* _add_rate_limit_headers
_add_rate_limit_headers(response, M, H, cpm, cph, ip) ==
    [response EXCEPT
        !.remaining_minute = Max(0, cpm - Len(DictGet(M, minute_key(ip)))),
        !.remaining_hour = Max(0, cph - Len(DictGet(H, hour_key(ip))))]

\* ------------------------------------------------------------------------
\* ErrorHandlerMiddleware and the exception handlers
\* ------------------------------------------------------------------------
\* _create_error_response (called without details)
_create_error_response(status_code, error_code, message, correlation_id) ==
    [NoResp EXCEPT !.status = status_code, !.code = error_code, !.message = message,
                   !.hdr_cid = correlation_id, !.body_cid = correlation_id]

\* every HTTPException answered 500
http_exception_handlerAlways500(scid, fresh, exc) ==
    LET correlation_id == StateCid(scid, fresh)
    IN [NoResp EXCEPT !.status = 500, !.code = "HTTP_EXCEPTION",
                      !.message = exc.detail,
                      !.hdr_cid = correlation_id, !.body_cid = correlation_id]

\* http_exception_handler: status_code=exc.status_code, "message": exc.detail,
\* headers={"X-Correlation-ID": correlation_id} (exc.headers is not read)
http_exception_handler(scid, fresh, exc) ==
    LET correlation_id == StateCid(scid, fresh)
    IN [NoResp EXCEPT !.status = exc.status_code, !.code = "HTTP_EXCEPTION",
                      !.message = exc.detail,
                      !.hdr_cid = correlation_id, !.body_cid = correlation_id]

\* validation_exception_handler: one formatted_errors entry per exc.errors()
validation_exception_handler(scid, fresh, exc) ==
    LET correlation_id == StateCid(scid, fresh)
    IN [NoResp EXCEPT !.status = 422, !.code = "VALIDATION_ERROR",
                      !.message = MSG_VALIDATION, !.details = exc.errors,
                      !.hdr_cid = correlation_id, !.body_cid = correlation_id]

\* response.headers["X-Correlation-ID"] = correlation_id
SetCorrelationHeader(response, correlation_id) ==
    [response EXCEPT !.hdr_cid = correlation_id]


\* ErrorHandlerMiddleware.dispatch after `await call_next` returned or raised
ErrorHandler_finish(response, exception, correlation_id) ==
    IF exception = NoExc
    THEN SetCorrelationHeader(response, correlation_id)
    ELSE IF exception = "SQLAlchemyError"
         THEN _create_error_response(500, "DATABASE_ERROR", MSG_DATABASE, correlation_id)
         ELSE _create_error_response(500, "INTERNAL_SERVER_ERROR", MSG_INTERNAL, correlation_id)

\* the request recorded before the verdict is taken
RateLimit_dispatchRecordFirst(W, lc, cpm, cph, bl, ip, p, current_time) ==
    LET doClean == current_time - lc > cleanup_interval
        W1 == IF doClean THEN _cleanup_old_requests(W, current_time) ELSE W
        lc1 == IF doClean THEN current_time ELSE lc
        v == _is_rate_limited(W1.burst, W1.minute, W1.hour, cpm, cph, bl, ip, p, current_time)
        W2 == [burst |-> v.burst, minute |-> v.minute, hour |-> v.hour]
    IN [limited |-> v.limited, W |-> _record_request(W2, ip, current_time), last_cleanup |-> lc1]

\* RateLimitMiddleware.dispatch up to `await call_next`: cleanup, verdict, record
RateLimit_dispatch(W, lc, cpm, cph, bl, ip, p, current_time) ==
    LET doClean == current_time - lc > cleanup_interval
        W1 == IF doClean THEN _cleanup_old_requests(W, current_time) ELSE W
        lc1 == IF doClean THEN current_time ELSE lc
        v == _is_rate_limited(W1.burst, W1.minute, W1.hour, cpm, cph, bl, ip, p, current_time)
        W2 == [burst |-> v.burst, minute |-> v.minute, hour |-> v.hour]
    IN IF v.limited
       THEN [limited |-> TRUE, W |-> W2, last_cleanup |-> lc1]
       ELSE [limited |-> FALSE, W |-> _record_request(W2, ip, current_time), last_cleanup |-> lc1]

\* ------------------------------------------------------------------------
\* DatabaseErrorHandler and execute_with_retry
\* ------------------------------------------------------------------------
VARIABLES
    retry_count,      \* DatabaseErrorHandler.retry_count of the global _db_error_handler
    rpc,              \* position of the current execute_with_retry call
    plan,             \* the operation of the call: failures before it succeeds
    errs,             \* the exceptions the operation raised in this call, in order
    delays,           \* the time.sleep() arguments of this call, in order
    start_count,      \* retry_count as the call found it
    ncalls            \* calls of execute_with_retry so far

retryVars == <<retry_count, rpc, plan, errs, delays, start_count, ncalls>>

max_retries == 3
retry_delay == 1

UPPER == <<"A","B","C","D","E","F","G","H","I","J","K","L","M","N","O","P","Q","R","S","T","U","V","W","X","Y","Z">>
LOWER == <<"a","b","c","d","e","f","g","h","i","j","k","l","m","n","o","p","q","r","s","t","u","v","w","x","y","z">>

\* str.lower()
lower(s) ==
    [i \in 1..Len(s) |->
        IF \E k \in 1..Len(UPPER) : UPPER[k] = s[i]
        THEN LOWER[CHOOSE k \in 1..Len(UPPER) : UPPER[k] = s[i]]
        ELSE s[i]]

\* the exceptions of the model, by name: type(error).__name__ and str(error)
Errors == {"conn_refused", "host_unreachable", "timeout", "unique", "op_unique",
           "duplicate", "data_temporary", "syntax"}

error_name(e) ==
    CASE e = "op_unique" -> "OperationalError"
      [] e = "duplicate" -> "IntegrityError"
      [] e = "data_temporary" -> "DataError"
      [] OTHER -> "Exception"

error_msg(e) ==
    CASE e = "conn_refused" -> <<"c","o","n","n","e","c","t","i","o","n"," ","r","e","f","u","s","e","d">>
      [] e = "host_unreachable" -> <<"h","o","s","t"," ","u","n","r","e","a","c","h","a","b","l","e">>
      [] e = "timeout" -> <<"t","i","m","e","o","u","t"," ","o","c","c","u","r","r","e","d">>
      [] e = "unique" -> <<"u","n","i","q","u","e"," ","c","o","n","s","t","r","a","i","n","t"," ","f","a","i","l","e","d">>
      [] e = "op_unique" -> <<"U","N","I","Q","U","E"," ","c","o","n","s","t","r","a","i","n","t"," ","f","a","i","l","e","d">>
      [] e = "duplicate" -> <<"d","u","p","l","i","c","a","t","e"," ","k","e","y">>
      [] e = "data_temporary" -> <<"t","e","m","p","o","r","a","r","y"," ","f","a","i","l","u","r","e">>
      [] OTHER -> <<"s","y","n","t","a","x"," ","e","r","r","o","r">>

recoverable_errors == {"OperationalError", "DisconnectionError", "TimeoutError", "DatabaseError"}

recoverable_indicators ==
    {<<"c","o","n","n","e","c","t","i","o","n">>,
     <<"t","i","m","e","o","u","t">>,
     <<"n","e","t","w","o","r","k">>,
     <<"t","e","m","p","o","r","a","r","y">>,
     <<"r","e","t","r","y">>}

connection_indicators ==
    {<<"c","o","n","n","e","c","t","i","o","n">>,
     <<"c","o","n","n","e","c","t">>,
     <<"n","e","t","w","o","r","k">>,
     <<"h","o","s","t">>,
     <<"s","e","r","v","e","r">>,
     <<"u","n","r","e","a","c","h","a","b","l","e">>,
     <<"r","e","f","u","s","e","d">>}

timeout_indicators ==
    {<<"t","i","m","e","o","u","t">>,
     <<"t","i","m","e"," ","o","u","t">>}

constraint_indicators ==
    {<<"c","o","n","s","t","r","a","i","n","t">>,
     <<"u","n","i","q","u","e">>,
     <<"f","o","r","e","i","g","n"," ","k","e","y">>,
     <<"c","h","e","c","k"," ","c","o","n","s","t","r","a","i","n","t">>,
     <<"n","o","t"," ","n","u","l","l">>,
     <<"p","r","i","m","a","r","y"," ","k","e","y">>}

_is_recoverable_error(e) ==
    \/ error_name(e) \in recoverable_errors
    \/ \E indicator \in recoverable_indicators : Contains(lower(error_msg(e)), indicator)

_is_timeout_error(e) ==
    \E indicator \in timeout_indicators : Contains(lower(error_msg(e)), indicator)

_is_connection_error(e) ==
    IF \E indicator \in timeout_indicators : Contains(lower(error_msg(e)), indicator)
    THEN FALSE
    ELSE \E indicator \in connection_indicators : Contains(lower(error_msg(e)), indicator)

_is_constraint_error(e) ==
    \E indicator \in constraint_indicators : Contains(lower(error_msg(e)), indicator)

_is_integrity_error(e) == error_name(e) \in {"IntegrityError", "DataError"}

\* error_info['action_taken'] of handle_database_error
action_taken(e) ==
    IF _is_timeout_error(e) THEN "timeout_retry"
    ELSE IF _is_connection_error(e) THEN "connection_retry"
    ELSE IF _is_constraint_error(e) THEN "constraint_violation"
    ELSE IF _is_integrity_error(e) THEN "integrity_violation"
    ELSE "unknown_error"

should_retry(e, count) ==
    IF count >= max_retries THEN FALSE ELSE _is_recoverable_error(e)

\* an operation that raises on every attempt
AlwaysFails == max_retries + 1
Plans == 0..AlwaysFails

\* ------------------------------------------------------------------------
\* Authentication: state
\* ------------------------------------------------------------------------
VARIABLES
    users,            \* the users table
    clock,            \* datetime.now(timezone.utc), in minutes
    aticks,           \* number of clock advances so far
    issued,           \* the tokens login has handed out
    logged_out,       \* the tokens presented to POST /auth/logout with success
    nreqs,            \* requests to the authentication routes so far
    last              \* the latest request to these routes and its response

authVars == <<users, clock, aticks, issued, logged_out, nreqs, last>>

\* None is the empty tuple and any other optional value x is <<x>>
None == <<>>
Some(x) == <<x>>
Value(o) == o[1]

\* hash_password; the salt is left out, checkpw compares against the hash
hash_password(password) == <<"bcrypt", password>>

\* the users table: the two rows of init_database and an inactive user
UserRow(id, username, password, is_active) ==
    [id |-> id, username |-> username, hashed_password |-> hash_password(password),
     is_active |-> is_active]

InitialUsers ==
    {UserRow(1, "ADMIN001", "PASSWORD", TRUE),
     UserRow(2, "USER0001", "PASSWORD", TRUE),
     UserRow(3, "inactive", "PASSWORD", FALSE)}

\* no request yet
NoRequest == [route |-> "", authorization |-> None, username |-> "", password |-> "",
              user |-> None, access_token |-> None, resp |-> NoResp]

\* ------------------------------------------------------------------------
\* Accounts, cards and transactions: state
\* ------------------------------------------------------------------------
VARIABLES
    accounts,         \* the accounts table
    cards,            \* the credit_cards table
    transactions,     \* the transactions table
    dreqs,            \* requests to the card and transaction routes so far
    dlast             \* the latest of these requests and its response

dataVars == <<accounts, cards, transactions, dreqs, dlast>>

\* no request yet
NoDataRequest == [route |-> "", user_id |-> 0, id |-> 0, status |-> 0, ids |-> {}]

\* ------------------------------------------------------------------------
\* Input sanitizing: state
\* ------------------------------------------------------------------------
VARIABLES
    input_data,       \* the string the client puts into its request, as characters
    sanitized,        \* what sanitize_input returned for input_data, once it was called
    delivered         \* the request InputSanitizerMiddleware handed to call_next

sanitizeVars == <<input_data, sanitized, delivered>>

\* no request went through the middleware yet
NoDelivery == [method |-> "", shape |-> "", sent |-> <<>>, body |-> <<>>, query |-> <<>>]

\* ------------------------------------------------------------------------
\* Card number encryption: state
\* ------------------------------------------------------------------------
VARIABLES
    card_number,      \* the card number handed to encrypt_card_number, as characters
    next_iv,          \* initialisation vectors os.urandom() produced so far
    encrypted,        \* the results of encrypt_card_number(card_number), in order
    decrypted         \* the results of decrypt_card_number on each of them

encryptVars == <<card_number, next_iv, encrypted, decrypted>>

\* ------------------------------------------------------------------------
\* Card number masking: state
\* ------------------------------------------------------------------------
VARIABLES
    card_digits,         \* the card number of a card, as characters
    stored,              \* credit_cards.card_number of the card, once it is stored
    masked_card_number   \* CardResponse.masked_card_number of the card, once built

maskVars == <<card_digits, stored, masked_card_number>>

\* a str column: the characters of a plain text, or the text encrypt returned
Plain(s) == [kind |-> "plain", plain |-> s, cipher |-> <<>>]
Cipher(s) == [kind |-> "cipher", plain |-> <<>>, cipher |-> s]

\* the card has no row yet
NoCard == [kind |-> "", plain |-> <<>>, cipher |-> <<>>]

\* ------------------------------------------------------------------------
\* Session state: one use of get_db_session (a with block) or of get_session
\* (a request's dependency). session_open[i] tells whether the i-th Session
\* opened in this use is still open; gen_pc is where the generator stands;
\* thrown is the exception the body raised into it; received is what the
\* caller gets when the block is left; suspended tells that the generator
\* was left at its yield.
\* ------------------------------------------------------------------------
VARIABLES session_open, gen_pc, manager, yields, thrown, received, suspended, nuses

sessionVars == <<session_open, gen_pc, manager, yields, thrown, received, suspended, nuses>>

\* ------------------------------------------------------------------------
\* Middleware stack state: user_middleware is the application's list of
\* middleware as add_middleware leaves it; entered is the sequence of
\* components the current request has entered so far.
\* ------------------------------------------------------------------------
VARIABLES user_middleware, entered, stage, is_limited, is_preflight, nstack

stackVars == <<user_middleware, entered, stage, is_limited, is_preflight, nstack>>

\* ------------------------------------------------------------------------
\* Login through the pipeline: the credentials the client puts into the
\* JSON body of POST /auth/login (the password as the pieces it is made
\* of), the credentials the route receives, and the outcome of the request.
\* ------------------------------------------------------------------------
VARIABLES sent_username, sent_password, seen, login_status

loginVars == <<sent_username, sent_password, seen, login_status>>

\* ------------------------------------------------------------------------
\* All variables, and for each part of the program the variables of the others
\* ------------------------------------------------------------------------
vars == <<pipelineVars, retryVars, authVars, dataVars, sanitizeVars, encryptVars, maskVars, sessionVars, stackVars, loginVars>>

nonPipelineVars == <<retryVars, authVars, dataVars, sanitizeVars, encryptVars, maskVars, sessionVars, stackVars, loginVars>>
nonRetryVars == <<pipelineVars, authVars, dataVars, sanitizeVars, encryptVars, maskVars, sessionVars, stackVars, loginVars>>
nonAuthVars == <<pipelineVars, retryVars, dataVars, sanitizeVars, encryptVars, maskVars, sessionVars, stackVars, loginVars>>
nonDataVars == <<pipelineVars, retryVars, authVars, sanitizeVars, encryptVars, maskVars, sessionVars, stackVars, loginVars>>
nonSanitizeVars == <<pipelineVars, retryVars, authVars, dataVars, encryptVars, maskVars, sessionVars, stackVars, loginVars>>
nonEncryptVars == <<pipelineVars, retryVars, authVars, dataVars, sanitizeVars, maskVars, sessionVars, stackVars, loginVars>>
nonMaskVars == <<pipelineVars, retryVars, authVars, dataVars, sanitizeVars, encryptVars, sessionVars, stackVars, loginVars>>
nonSessionVars == <<pipelineVars, retryVars, authVars, dataVars, sanitizeVars, encryptVars, maskVars, stackVars, loginVars>>
nonSessionCounterVars == <<rpc, plan, errs, delays, start_count, ncalls, pipelineVars, authVars, dataVars, sanitizeVars, encryptVars, maskVars, stackVars, loginVars>>
nonStackVars == <<pipelineVars, retryVars, authVars, dataVars, sanitizeVars, encryptVars, maskVars, sessionVars, loginVars>>
nonLoginVars == <<pipelineVars, retryVars, authVars, dataVars, sanitizeVars, encryptVars, maskVars, sessionVars, stackVars>>

\* ------------------------------------------------------------------------
\* Initial state: the middleware stack of main.py right after construction
\* ------------------------------------------------------------------------
Init ==
    /\ now = 0
    /\ ticks = 0
    /\ \E c \in Configs :
          /\ calls_per_minute = c.cpm
          /\ calls_per_hour = c.cph
          /\ burst_limit = c.bl
    /\ burst_requests = EmptyDict
    /\ minute_requests = EmptyDict
    /\ hour_requests = EmptyDict
    /\ last_cleanup = 0
    /\ pc = [r \in AllReqs |-> "new"]
    /\ client_ip = [r \in AllReqs |-> "ipA"]
    /\ path = [r \in AllReqs |-> "cards"]
    /\ state_cid = [r \in AllReqs |-> NoCid]
    /\ resp = [r \in AllReqs |-> NoResp]
    /\ forwarded = [r \in AllReqs |-> FALSE]
    /\ next_uuid = 0
    /\ raised = [r \in AllReqs |-> NoOutcome]
    /\ rl_log = <<>>
    /\ retry_count = 0
    /\ rpc = "idle"
    /\ plan = 0
    /\ errs = <<>>
    /\ delays = <<>>
    /\ start_count = 0
    /\ ncalls = 0
    /\ users = InitialUsers
    /\ clock = 0
    /\ aticks = 0
    /\ issued = {}
    /\ logged_out = {}
    /\ nreqs = 0
    /\ last = NoRequest
    /\ accounts = {}
    /\ sent_username = <<>>
    /\ sent_password = <<>>
    /\ seen = None
    /\ login_status = ""
    /\ user_middleware = <<>>
    /\ entered = <<>>
    /\ stage = "startup"
    /\ is_limited = FALSE
    /\ is_preflight = FALSE
    /\ nstack = 0
    /\ session_open = <<>>
    /\ gen_pc = "idle"
    /\ manager = ""
    /\ yields = 0
    /\ thrown = None
    /\ received = ""
    /\ suspended = FALSE
    /\ nuses = 0
    /\ card_digits = <<>>
    /\ stored = NoCard
    /\ masked_card_number = None
    /\ input_data = <<>>
    /\ sanitized = None
    /\ delivered = NoDelivery
    /\ card_number = <<>>
    /\ next_iv = 0
    /\ encrypted = <<>>
    /\ decrypted = <<>>
    /\ cards = {}
    /\ transactions = {}
    /\ dreqs = 0
    /\ dlast = NoDataRequest

\* ------------------------------------------------------------------------
\* Actions
\* ------------------------------------------------------------------------
\* the clock advances
Tick ==
    /\ ticks < MaxTicks
    /\ \E d \in TickSteps : now' = now + d
    /\ ticks' = ticks + 1
    /\ UNCHANGED <<cfgVars, windowVars, pc, client_ip, path, state_cid, resp,
                   forwarded, next_uuid, raised, rl_log, nonPipelineVars>>

\* A request comes down the middleware stack of main.py:
\* ErrorHandlerMiddleware.dispatch lines 35-40 (correlation id generated and
\* stored in request.state), then RateLimitMiddleware.dispatch lines 63-79.
\* The rate limiter has no await between reading the clock and recording the
\* request, so its part is atomic on the event loop. A limited request is
\* answered 429, which goes back up through ErrorHandlerMiddleware.
Dispatch(r, ips, paths) ==
    /\ pc[r] = "new"
    /\ \A q \in AllReqs : q < r => pc[q] # "new"
    /\ \E ip \in ips, p \in paths :
        LET correlation_id == NewCorrelationId(next_uuid + 1)
            W == [burst |-> burst_requests, minute |-> minute_requests, hour |-> hour_requests]
            d == RateLimit_dispatch(W, last_cleanup, calls_per_minute, calls_per_hour,
                                    burst_limit, ip, p, now)
        IN /\ client_ip' = [client_ip EXCEPT ![r] = ip]
           /\ path' = [path EXCEPT ![r] = p]
           /\ state_cid' = [state_cid EXCEPT ![r] = correlation_id]
           /\ next_uuid' = next_uuid + 1
           /\ burst_requests' = d.W.burst
           /\ minute_requests' = d.W.minute
           /\ hour_requests' = d.W.hour
           /\ last_cleanup' = d.last_cleanup
           /\ rl_log' = Append(rl_log, [req |-> r, ip |-> ip, path |-> p,
                                        t |-> now, limited |-> d.limited])
           /\ IF d.limited
              THEN /\ resp' = [resp EXCEPT ![r] =
                                  ErrorHandler_finish(_create_rate_limit_response(correlation_id),
                                                      NoExc, correlation_id)]
                   /\ pc' = [pc EXCEPT ![r] = "done"]
                   /\ forwarded' = forwarded
              ELSE /\ resp' = resp
                   /\ pc' = [pc EXCEPT ![r] = "call_next"]
                   /\ forwarded' = [forwarded EXCEPT ![r] = TRUE]
    /\ UNCHANGED <<now, ticks, cfgVars, raised, nonPipelineVars>>

\* ------------------------------------------------------------------------
\* Route handlers: what they return or raise
\* ------------------------------------------------------------------------
\* str(e) of an exception raised below a route handler
ExcTexts == {"textA", "textB"}

NoFailure == [type |-> "none", text |-> ""]
Failures == [type : {"SQLAlchemyError", "Exception"}, text : ExcTexts]

HTTP_400_BAD_REQUEST == 400
HttpStatuses == {404}

DETAIL_UPDATE_ACCOUNT == "Error al actualizar cuenta: "
DETAIL_CARD_NOT_FOUND == "Tarjeta no encontrada o no tienes permisos para acceder a ella"

Returned(handler) ==
    [NoOutcome EXCEPT !.handler = handler, !.kind = "ok", !.status_code = 200]

\* raise HTTPException(status_code=..., detail=...)
HTTPException(handler, status_code, detail, text) ==
    [NoOutcome EXCEPT !.handler = handler, !.kind = "HTTPException",
                      !.status_code = status_code, !.detail = detail, !.text = text]

\* raise HTTPException(status_code=..., detail=..., headers={"WWW-Authenticate": "Bearer"})
HTTPExceptionBearer(handler, status_code, detail) ==
    [HTTPException(handler, status_code, detail, "") EXCEPT !.headers = "Bearer"]

\* GET /accounts/me: no try block, a failure of the service escapes
get_my_account(failure) ==
    IF failure = NoFailure
    THEN Returned("get_my_account")
    ELSE [NoOutcome EXCEPT !.handler = "get_my_account", !.kind = failure.type,
                           !.text = failure.text]

\* PUT /accounts/me: a body with violations is rejected before the handler
\* runs; a failure of update_account is caught and raised again as
\* HTTPException(400, f"Error al actualizar cuenta: {str(e)}")
update_my_account(violations, failure) ==
    IF violations > 0
    THEN [NoOutcome EXCEPT !.handler = "update_my_account",
                           !.kind = "RequestValidationError", !.errors = violations]
    ELSE IF failure = NoFailure
    THEN Returned("update_my_account")
    ELSE HTTPException("update_my_account", HTTP_400_BAD_REQUEST,
                       <<DETAIL_UPDATE_ACCOUNT, failure.text>>, failure.text)

\* GET /cards/{card_id}: 404 with a fixed detail when get_card_by_id finds nothing
get_card_details(found) ==
    IF found
    THEN Returned("get_card_details")
    ELSE CHOOSE o \in {HTTPException("get_card_details", st, <<DETAIL_CARD_NOT_FOUND>>, "") : st \in HttpStatuses} : TRUE

Outcomes ==
    {get_my_account(f) : f \in {NoFailure} \cup Failures}
    \cup {update_my_account(n, f) : n \in 0..MaxErrors, f \in {NoFailure} \cup Failures}
    \cup {get_card_details(b) : b \in BOOLEAN}

\* the rate limiter only sees whether call_next returned or raised
RateLimitOutcomes ==
    {get_my_account(NoFailure), get_my_account([type |-> "Exception", text |-> "textA"])}

\* What call_next gives back to RateLimitMiddleware: the response of the
\* route handler or of the exception handlers of setup_exception_handlers
\* (which run below the middlewares), or an exception that escaped.
Downstream(outcome, scid, fresh) ==
    IF outcome.kind = "ok" THEN [response |-> [NoResp EXCEPT !.status = 200], exception |-> NoExc]
    ELSE IF outcome.kind = "HTTPException"
         THEN [response |-> http_exception_handler(scid, fresh, outcome), exception |-> NoExc]
    ELSE IF outcome.kind = "RequestValidationError"
         THEN [response |-> validation_exception_handler(scid, fresh, outcome), exception |-> NoExc]
    ELSE [response |-> NoResp, exception |-> outcome.kind]

\* RateLimitMiddleware.dispatch lines 79-84 around the result of call_next
RateLimit_finish(down, M, H, cpm, cph, ip) ==
    IF down.exception = NoExc
    THEN [down EXCEPT !.response = _add_rate_limit_headers(down.response, M, H, cpm, cph, ip)]
    ELSE down

\* The route handler finishes and its result goes back up the stack:
\* RateLimitMiddleware.dispatch lines 81-84 (headers from the windows as they
\* are now), then ErrorHandlerMiddleware.dispatch lines 40-92.
Complete(r, outcomes) ==
    /\ pc[r] = "call_next"
    /\ \E outcome \in outcomes :
        LET fresh == NewCorrelationId(next_uuid + 1)
            down == Downstream(outcome, state_cid[r], fresh)
            up == RateLimit_finish(down, minute_requests, hour_requests,
                                   calls_per_minute, calls_per_hour, client_ip[r])
        IN /\ resp' = [resp EXCEPT ![r] = ErrorHandler_finish(up.response, up.exception, state_cid[r])]
           /\ raised' = [raised EXCEPT ![r] = outcome]
           /\ next_uuid' = IF outcome.kind \in {"HTTPException", "RequestValidationError"}
                           THEN next_uuid + 1 ELSE next_uuid
    /\ pc' = [pc EXCEPT ![r] = "done"]
    /\ UNCHANGED <<now, ticks, cfgVars, windowVars, client_ip, path, state_cid,
                   forwarded, rl_log, nonPipelineVars>>

\* the rate limiter under MaxReq requests
Next ==
    \/ Tick
    \/ \E r \in Reqs : Dispatch(r, IPs, Paths)
    \/ \E r \in Reqs : Complete(r, RateLimitOutcomes)

Spec == Init /\ [][Next]_vars

\* the error paths of the stack under MaxErrReq requests of one client
NextErr ==
    \/ Tick
    \/ \E r \in ErrReqs : Dispatch(r, {"ipA"}, {"cards"})
    \/ \E r \in ErrReqs : Complete(r, Outcomes)

SpecErr == Init /\ [][NextErr]_vars


\* ------------------------------------------------------------------------
\* execute_with_retry, called by one caller after another
\* ------------------------------------------------------------------------
\* execute_with_retry is entered: error_handler = get_db_error_handler(),
\* the one global instance, whose retry_count is whatever the last call left
Call ==
    /\ rpc \in {"idle", "returned", "raised"}
    /\ ncalls < MaxCalls
    /\ ncalls' = ncalls + 1
    /\ plan' \in Plans
    /\ errs' = <<>>
    /\ delays' = <<>>
    /\ start_count' = retry_count
    /\ rpc' = "attempt"
    /\ UNCHANGED <<retry_count, nonRetryVars>>

\* result = operation(**kwargs) returns: reset_retry_count(), return result
AttemptOk ==
    /\ rpc = "attempt"
    /\ plan # AlwaysFails
    /\ Len(errs) >= plan
    /\ retry_count' = 0
    /\ rpc' = "returned"
    /\ UNCHANGED <<plan, errs, delays, start_count, ncalls, nonRetryVars>>

\* operation(**kwargs) raises e: handle_database_error, then should_retry:
\* increment_retry, time.sleep(retry_delay * retry_count), continue; or raise
AttemptFail ==
    /\ rpc = "attempt"
    /\ plan = AlwaysFails \/ Len(errs) < plan
    /\ \E e \in Errors :
          /\ errs' = Append(errs, e)
          /\ IF should_retry(e, retry_count)
             THEN /\ retry_count' = retry_count + 1
                  /\ delays' = Append(delays, retry_delay * (retry_count + 1))
                  /\ rpc' = "attempt"
             ELSE /\ rpc' = "raised"
                  /\ UNCHANGED <<retry_count, delays>>
    /\ UNCHANGED <<plan, start_count, ncalls, nonRetryVars>>

NextRetry ==
    \/ Call
    \/ AttemptOk
    \/ AttemptFail

SpecRetry == Init /\ [][NextRetry]_vars

\* ------------------------------------------------------------------------
\* Authentication: AuthService, dependencies.py and routers/auth.py
\* ------------------------------------------------------------------------
secret_key == "your-secret-key-here-change-in-production"
access_token_expire_minutes == 30

Usernames == {"ADMIN001", "inactive", "nonexistent"}
Passwords == {"PASSWORD", "wrongpassword"}

\* verify_password: bcrypt.checkpw
verify_password(plain_password, hashed_password) ==
    hashed_password = hash_password(plain_password)

\* str(user.id) and int(user_id), which raises ValueError on anything else
StrIds == <<"1", "2", "3">>
str(id) == StrIds[id]
int(string) ==
    IF \E id \in 1..Len(StrIds) : StrIds[id] = string
    THEN Some(CHOOSE id \in 1..Len(StrIds) : StrIds[id] = string)
    ELSE None

\* session.exec(select(User).where(cond, User.is_active == True)).first()
FirstActive(U, Cond(_)) ==
    IF \E u \in U : Cond(u) /\ u.is_active
    THEN Some(CHOOSE u \in U : Cond(u) /\ u.is_active)
    ELSE None

\* a lookup that forgets the is_active condition
authenticate_userAnyStatus(U, username, password) ==
    IF \E u \in U : u.username = username
    THEN LET user == CHOOSE u \in U : u.username = username
         IN IF ~verify_password(password, user.hashed_password) THEN None ELSE Some(user)
    ELSE None

\* authenticate_user
authenticate_user(U, username, password) ==
    LET user == FirstActive(U, LAMBDA u : u.username = username)
    IN IF user = None THEN None
       ELSE IF ~verify_password(password, Value(user).hashed_password) THEN None
       ELSE user

\* create_user_token_data: "sub": str(user.id)
create_user_token_data(user) == [sub |-> Some(str(user.id)), username |-> user.username]

NoDelta == <<>>
Deltas == {NoDelta, Some(0), Some(1), Some(-1), Some(31)}

\* create_access_token: `if expires_delta:` is false for None and for a zero delta
create_access_token(user_data, expires_delta, t) ==
    LET expire == IF expires_delta = NoDelta \/ expires_delta = Some(0)
                  THEN t + access_token_expire_minutes
                  ELSE t + Value(expires_delta)
    IN [form |-> "jwt", key |-> secret_key, sub |-> user_data.sub, exp |-> Some(expire)]

\* tokens nobody issued: not a JWT, signed with another key, a subject that
\* is not a number, no subject, no exp
ForeignTokens(t) ==
    {[form |-> "garbage", key |-> "", sub |-> None, exp |-> None],
     [form |-> "jwt", key |-> "another-key", sub |-> Some("1"), exp |-> Some(t + 1)],
     [form |-> "jwt", key |-> secret_key, sub |-> Some("abc"), exp |-> Some(t + 1)],
     [form |-> "jwt", key |-> secret_key, sub |-> None, exp |-> Some(t + 1)],
     [form |-> "jwt", key |-> secret_key, sub |-> Some("1"), exp |-> None]}

\* the exceptions jwt.decode raises are JWTError or subclasses of it
JWTErrors == {"JWTError", "ExpiredSignatureError", "JWTClaimsError"}

\* jwt.decode(token, secret_key, algorithms=[algorithm]): structure,
\* signature, then the exp claim against the clock (expired when exp < now)
jwt_decode(token, key, t) ==
    IF token.form # "jwt" THEN [raises |-> "JWTError", value |-> None]
    ELSE IF token.key # key THEN [raises |-> "JWTError", value |-> None]
    ELSE IF token.exp # None /\ Value(token.exp) < t
         THEN [raises |-> "ExpiredSignatureError", value |-> None]
    ELSE [raises |-> NoExc, value |-> Some(token)]

\* `now > exp_datetime` in place of `now >= exp_datetime`
ExpiredLate(t, exp) == t > exp

\* the expiry test of verify_token: `if now >= exp_datetime`
Expired(t, exp) == t >= exp

\* verify_token: `except JWTError: return None`
verify_token(token, t) ==
    LET d == jwt_decode(token, secret_key, t)
    IN IF d.raises \in JWTErrors THEN [raises |-> NoExc, value |-> None]
       ELSE IF d.raises # NoExc THEN d
       ELSE IF Value(d.value).exp = None THEN [raises |-> NoExc, value |-> None]
       ELSE IF Expired(t, Value(Value(d.value).exp)) THEN [raises |-> NoExc, value |-> None]
       ELSE d

\* AuthService.get_current_user
AuthService_get_current_user(U, token, t) ==
    LET v == verify_token(token, t)
    IN IF v.raises # NoExc \/ v.value = None THEN v
       ELSE LET user_id == Value(v.value).sub
            IN IF user_id = None THEN [raises |-> NoExc, value |-> None]
               ELSE IF int(Value(user_id)) = None THEN [raises |-> NoExc, value |-> None]
               ELSE [raises |-> NoExc,
                     value |-> FirstActive(U, LAMBDA u : u.id = Value(int(Value(user_id))))]

DETAIL_INVALID_TOKEN == "Token invalido o expirado"
DETAIL_INACTIVE_USER == "Usuario inactivo"
DETAIL_INVALID_CREDENTIALS == "Credenciales invalidas"
DETAIL_NOT_AUTHENTICATED == "Not authenticated"

HTTP_401_UNAUTHORIZED == 401
HTTP_403_FORBIDDEN == 403

\* an exception that is not an HTTPException leaves the dependency or handler
Escapes(handler, exception) ==
    [NoOutcome EXCEPT !.handler = handler, !.kind = exception]

\* security = HTTPBearer(): what it raises without an Authorization header
\* is 403 in the older FastAPI releases and 401 with WWW-Authenticate in the
\* newer ones
HTTPBearerErrors ==
    {HTTPException("security", HTTP_403_FORBIDDEN, <<DETAIL_NOT_AUTHENTICATED>>, ""),
     HTTPExceptionBearer("security", HTTP_401_UNAUTHORIZED, <<DETAIL_NOT_AUTHENTICATED>>)}

\* dependencies.get_current_user: the user, or the exception it raises
get_current_user(U, token, t) ==
    LET r == AuthService_get_current_user(U, token, t)
    IN IF r.raises # NoExc
       THEN [user |-> None, outcome |-> Escapes("get_current_user", r.raises)]
       ELSE IF r.value = None
       THEN [user |-> None,
             outcome |-> HTTPExceptionBearer("get_current_user", HTTP_401_UNAUTHORIZED,
                                             <<DETAIL_INVALID_TOKEN>>)]
       ELSE [user |-> r.value, outcome |-> NoOutcome]

\* dependencies.get_current_active_user
get_current_active_user(U, token, t) ==
    LET c == get_current_user(U, token, t)
    IN IF c.user = None THEN c
       ELSE IF ~Value(c.user).is_active
       THEN [user |-> None,
             outcome |-> HTTPException("get_current_active_user", HTTP_400_BAD_REQUEST,
                                       <<DETAIL_INACTIVE_USER>>, "")]
       ELSE c

\* POST /auth/login: the outcome and the token of the response
login(U, username, password, t) ==
    LET user == authenticate_user(U, username, password)
    IN IF user = None
       THEN [outcome |-> HTTPExceptionBearer("login", HTTP_401_UNAUTHORIZED,
                                             <<DETAIL_INVALID_CREDENTIALS>>),
             access_token |-> None]
       ELSE [outcome |-> Returned("login"),
             access_token |-> Some(create_access_token(create_user_token_data(Value(user)),
                                                       NoDelta, t))]

\* a logout that deactivates the user
logoutDeactivating(U, current_user) ==
    [outcome |-> Returned("logout"),
     users |-> {[u EXCEPT !.is_active = (u.id # current_user.id /\ u.is_active)] : u \in U}]

\* POST /auth/logout: a message for the client, nothing is written
logout(U, current_user) ==
    [outcome |-> Returned("logout"), users |-> U]

\* GET /auth/me
get_current_user_info(current_user) == Returned("get_current_user_info")

\* the response the client gets for what the route or its dependencies did
Respond(outcome, correlation_id) ==
    LET down == Downstream(outcome, correlation_id, correlation_id)
    IN ErrorHandler_finish(down.response, down.exception, correlation_id)

ProtectedRoutes == {"logout", "get_current_user_info"}
AuthTickSteps == {1, 29, 30}

\* what a client can send in the Authorization header
Authorizations == {Some(tok) : tok \in issued \cup ForeignTokens(clock)}

\* the clock of the token checks advances
AuthTick ==
    /\ aticks < MaxAuthTicks
    /\ aticks' = aticks + 1
    /\ \E d \in AuthTickSteps : clock' = clock + d
    /\ UNCHANGED <<users, issued, logged_out, nreqs, last, nonAuthVars>>

\* POST /auth/login
Login ==
    /\ nreqs < MaxAuthReqs
    /\ nreqs' = nreqs + 1
    /\ \E username \in Usernames, password \in Passwords :
        LET l == login(users, username, password, clock)
        IN /\ issued' = IF l.access_token = None THEN issued
                        ELSE issued \cup {Value(l.access_token)}
           /\ last' = [NoRequest EXCEPT !.route = "login", !.username = username,
                                        !.password = password,
                                        !.access_token = l.access_token,
                                        !.resp = Respond(l.outcome, Uuid(nreqs + 1))]
    /\ UNCHANGED <<users, clock, aticks, logged_out, nonAuthVars>>

\* a protected route called without an Authorization header
Unauthenticated ==
    /\ nreqs < MaxAuthReqs
    /\ nreqs' = nreqs + 1
    /\ \E route \in ProtectedRoutes, e \in HTTPBearerErrors :
        last' = [NoRequest EXCEPT !.route = route, !.resp = Respond(e, Uuid(nreqs + 1))]
    /\ UNCHANGED <<users, clock, aticks, issued, logged_out, nonAuthVars>>

\* POST /auth/logout with a bearer token
Logout ==
    /\ nreqs < MaxAuthReqs
    /\ nreqs' = nreqs + 1
    /\ \E authorization \in Authorizations :
        LET c == get_current_active_user(users, Value(authorization), clock)
        IN IF c.user = None
           THEN /\ last' = [NoRequest EXCEPT !.route = "logout",
                                             !.authorization = authorization,
                                             !.resp = Respond(c.outcome, Uuid(nreqs + 1))]
                /\ UNCHANGED <<users, logged_out>>
           ELSE LET l == logout(users, Value(c.user))
                IN /\ users' = l.users
                   /\ logged_out' = logged_out \cup {Value(authorization)}
                   /\ last' = [NoRequest EXCEPT !.route = "logout",
                                                !.authorization = authorization,
                                                !.user = c.user,
                                                !.resp = Respond(l.outcome, Uuid(nreqs + 1))]
    /\ UNCHANGED <<clock, aticks, issued, nonAuthVars>>

\* GET /auth/me with a bearer token
Me ==
    /\ nreqs < MaxAuthReqs
    /\ nreqs' = nreqs + 1
    /\ \E authorization \in Authorizations :
        LET c == get_current_active_user(users, Value(authorization), clock)
            outcome == IF c.user = None THEN c.outcome
                       ELSE get_current_user_info(Value(c.user))
        IN last' = [NoRequest EXCEPT !.route = "get_current_user_info",
                                     !.authorization = authorization,
                                     !.user = c.user,
                                     !.resp = Respond(outcome, Uuid(nreqs + 1))]
    /\ UNCHANGED <<users, clock, aticks, issued, logged_out, nonAuthVars>>

NextAuth ==
    \/ AuthTick
    \/ Login
    \/ Unauthenticated
    \/ Logout
    \/ Me

SpecAuth == Init /\ [][NextAuth]_vars

\* ------------------------------------------------------------------------
\* Accounts, cards and transactions: services and routes
\* ------------------------------------------------------------------------
\* the authenticated users that call the routes
DataUsers == {1, 2}

\* session.exec(statement).first(): rows come in primary key order
First(rows) ==
    IF rows = {} THEN None
    ELSE Some(CHOOSE r \in rows : \A q \in rows : r.id <= q.id)

\* the ids of rows as a list in primary key order
RECURSIVE IdList(_)
IdList(rows) ==
    IF rows = {} THEN <<>>
    ELSE LET r == CHOOSE x \in rows : \A q \in rows : x.id <= q.id
         IN <<r.id>> \o IdList(rows \ {r})

\* an autoincrement primary key; no row is ever deleted
NextId(rows) == Cardinality(rows) + 1

\* AccountService.get_account_by_user_id
get_account_by_user_id(A, user_id) == First({a \in A : a.user_id = user_id})

\* AccountService.get_or_create_account: the account and the table after it
get_or_create_account(A, user_id) ==
    LET account == get_account_by_user_id(A, user_id)
    IN IF account # None
       THEN [account |-> Value(account), accounts |-> A]
       ELSE LET created == [id |-> NextId(A), user_id |-> user_id]
            IN [account |-> created, accounts |-> A \cup {created}]

\* CardService.get_cards_by_account_id
get_cards_by_account_id(C, account_id) == {c \in C : c.account_id = account_id}

\* a lookup by card id alone
get_card_by_idAnyAccount(C, card_id, account_id) ==
    First({c \in C : c.id = card_id})

\* CardService.get_card_by_id
get_card_by_id(C, card_id, account_id) ==
    First({c \in C : c.id = card_id /\ c.account_id = account_id})

\* CardService.create_sample_cards: a VISA and a MASTERCARD for the account
SAMPLE_CARDS == 2
create_sample_cards(C, account_id) ==
    C \cup {[id |-> NextId(C) + k, account_id |-> account_id] : k \in 0..(SAMPLE_CARDS - 1)}

\* TransactionService.get_user_card_ids
get_user_card_ids(A, C, user_id) ==
    LET account == First({a \in A : a.user_id = user_id})
    IN IF account = None THEN <<>>
       ELSE IdList({c \in C : c.account_id = Value(account).id})

Range(seq) == {seq[i] : i \in 1..Len(seq)}

\* the filters of GET /transactions that select rows: card_id and transaction_type
NoFilter == <<>>
TransactionTypes == {"PURCHASE", "PAYMENT", "REFUND"}

\* TransactionService.get_transactions_with_filters, before order_by, offset and limit
get_transactions_with_filters(A, C, T, user_id, filters) ==
    LET user_card_ids == get_user_card_ids(A, C, user_id)
    IN IF user_card_ids = <<>> THEN {}
       ELSE IF filters.card_id # NoFilter /\ Value(filters.card_id) \notin Range(user_card_ids)
       THEN {}
       ELSE {t \in T :
               /\ t.card_id \in Range(user_card_ids)
               /\ filters.card_id # NoFilter => t.card_id = Value(filters.card_id)
               /\ filters.transaction_type # NoFilter
                  => t.transaction_type = Value(filters.transaction_type)}

\* TransactionService.get_transaction_by_id
get_transaction_by_id(A, C, T, transaction_id, user_id) ==
    LET user_card_ids == get_user_card_ids(A, C, user_id)
    IN IF user_card_ids = <<>> THEN None
       ELSE First({t \in T : t.id = transaction_id /\ t.card_id \in Range(user_card_ids)})

\* TransactionService.create_sample_transactions: five rows, the cards taken in turn
SAMPLE_TRANSACTION_TYPES == <<"PURCHASE", "PURCHASE", "PURCHASE", "PAYMENT", "PURCHASE">>
create_sample_transactions(T, card_ids) ==
    IF card_ids = <<>> THEN T
    ELSE T \cup {[id |-> NextId(T) + i, card_id |-> card_ids[(i % Len(card_ids)) + 1],
                  transaction_type |-> SAMPLE_TRANSACTION_TYPES[i + 1]] :
                    i \in 0..(Len(SAMPLE_TRANSACTION_TYPES) - 1)}

HTTP_404_NOT_FOUND == 404

\* the ids a client may ask for: those in use and one that is not
CardIds == 1..(Cardinality(cards) + 1)
TransactionIds == 1..(Cardinality(transactions) + 1)
Filters ==
    [card_id : {NoFilter} \cup {Some(c) : c \in CardIds},
     transaction_type : {NoFilter} \cup {Some(ty) : ty \in TransactionTypes},
     offset : {0, 1}]

\* GET /cards
GetMyCards ==
    /\ dreqs < MaxDataReqs
    /\ dreqs' = dreqs + 1
    /\ \E user_id \in DataUsers :
        LET g == get_or_create_account(accounts, user_id)
            found == get_cards_by_account_id(cards, g.account.id)
            C1 == IF found = {} THEN create_sample_cards(cards, g.account.id) ELSE cards
        IN /\ accounts' = g.accounts
           /\ cards' = C1
           /\ dlast' = [NoDataRequest EXCEPT !.route = "get_my_cards", !.user_id = user_id,
                            !.status = 200,
                            !.ids = {c.id : c \in get_cards_by_account_id(C1, g.account.id)}]
    /\ UNCHANGED <<transactions, nonDataVars>>

\* GET /cards/{card_id}
GetCardDetails ==
    /\ dreqs < MaxDataReqs
    /\ dreqs' = dreqs + 1
    /\ \E user_id \in DataUsers, card_id \in CardIds :
        LET g == get_or_create_account(accounts, user_id)
            card == get_card_by_id(cards, card_id, g.account.id)
        IN /\ accounts' = g.accounts
           /\ dlast' = [NoDataRequest EXCEPT !.route = "get_card_details", !.user_id = user_id,
                            !.id = card_id,
                            !.status = IF card = None THEN get_card_details(FALSE).status_code
                                       ELSE get_card_details(TRUE).status_code,
                            !.ids = IF card = None THEN {} ELSE {Value(card).id}]
    /\ UNCHANGED <<cards, transactions, nonDataVars>>

\* GET /transactions
GetMyTransactions ==
    /\ dreqs < MaxDataReqs
    /\ dreqs' = dreqs + 1
    /\ \E user_id \in DataUsers, filters \in Filters :
        LET found == get_transactions_with_filters(accounts, cards, transactions, user_id, filters)
            sample == found = {} /\ filters.offset = 0
            ids0 == get_user_card_ids(accounts, cards, user_id)
            g == get_or_create_account(accounts, user_id)
            A1 == IF sample /\ ids0 = <<>> THEN g.accounts ELSE accounts
            C1 == IF sample /\ ids0 = <<>> THEN create_sample_cards(cards, g.account.id) ELSE cards
            ids1 == IF sample /\ ids0 = <<>> THEN IdList(C1 \ cards) ELSE ids0
            T1 == IF sample THEN create_sample_transactions(transactions, ids1) ELSE transactions
            again == IF sample THEN get_transactions_with_filters(A1, C1, T1, user_id, filters)
                     ELSE found
        IN /\ accounts' = A1
           /\ cards' = C1
           /\ transactions' = T1
           /\ dlast' = [NoDataRequest EXCEPT !.route = "get_my_transactions",
                            !.user_id = user_id, !.status = 200,
                            !.ids = {t.id : t \in again}]
    /\ UNCHANGED nonDataVars

\* GET /transactions/{transaction_id}
GetTransactionDetails ==
    /\ dreqs < MaxDataReqs
    /\ dreqs' = dreqs + 1
    /\ \E user_id \in DataUsers, transaction_id \in TransactionIds :
        LET transaction == get_transaction_by_id(accounts, cards, transactions,
                                                 transaction_id, user_id)
        IN dlast' = [NoDataRequest EXCEPT !.route = "get_transaction_details",
                         !.user_id = user_id, !.id = transaction_id,
                         !.status = IF transaction = None THEN HTTP_404_NOT_FOUND ELSE 200,
                         !.ids = IF transaction = None THEN {} ELSE {Value(transaction).id}]
    /\ UNCHANGED <<accounts, cards, transactions, nonDataVars>>

NextData ==
    \/ GetMyCards
    \/ GetCardDetails
    \/ GetMyTransactions
    \/ GetTransactionDetails

SpecData == Init /\ [][NextData]_vars

\* ------------------------------------------------------------------------
\* Properties of the rate limiter
\* ------------------------------------------------------------------------
\* a is a suffix of b
IsSuffix(a, b) ==
    /\ Len(a) <= Len(b)
    /\ \A i \in 1..Len(a) : a[i] = b[Len(b) - Len(a) + i]

\* the verdicts taken for one client IP, oldest first
IPLog(ip) == SelectSeq(rl_log, LAMBDA e : e.ip = ip)

\* the timestamps of the admitted requests of one client IP, oldest first
RECURSIVE TimesOf(_)
TimesOf(L) == IF L = <<>> THEN <<>> ELSE <<Head(L).t>> \o TimesOf(Tail(L))
AdmittedTimes(ip) == TimesOf(SelectSeq(rl_log, LAMBDA e : e.ip = ip /\ ~e.limited))

\* All requests seen from ip are on non-sensitive paths and lie, with the
\* present moment, in one 60-second span; burst and hourly limits are no
\* smaller than the per-minute limit.
C1_Scenario(ip) ==
    LET L == IPLog(ip)
    IN /\ L # <<>>
       /\ \A k \in 1..Len(L) : ~_is_sensitive_endpoint(L[k].path)
       /\ now - L[1].t <= MINUTE_WINDOW
       /\ burst_limit >= calls_per_minute
       /\ calls_per_hour >= calls_per_minute

\* C1: with calls_per_minute = N and the burst and hourly limits not binding,
\* of the requests of one client IP on a non-sensitive path inside one
\* 60-second span exactly the first N are forwarded to the handler, every
\* later one is answered 429 with Retry-After: 60, and the 200 response of
\* the N-th carries X-RateLimit-Remaining-Minute: 0.
C1_MinuteQuota ==
    \A ip \in IPs :
        C1_Scenario(ip) =>
            LET L == IPLog(ip)
            IN \A k \in 1..Len(L) :
                LET r == L[k].req
                IN /\ k <= calls_per_minute =>
                        /\ ~L[k].limited
                        /\ forwarded[r]
                        /\ resp[r].status # 429
                   /\ k > calls_per_minute =>
                        /\ L[k].limited
                        /\ ~forwarded[r]
                        /\ pc[r] = "done"
                        /\ resp[r].status = 429
                        /\ resp[r].retry_after = 60
                   /\ (k = calls_per_minute /\ pc[r] = "done" /\ resp[r].status = 200) =>
                        resp[r].remaining_minute = 0

C1_Witness ==
    \E ip \in IPs :
        /\ C1_Scenario(ip)
        /\ LET L == IPLog(ip)
           IN /\ Len(L) > calls_per_minute
              /\ L[Len(L)].limited
              /\ resp[L[Len(L)].req].status = 429
              /\ pc[L[calls_per_minute].req] = "done"
              /\ resp[L[calls_per_minute].req].status = 200

\* the verdict a request from ip on path p would get at the present moment
WouldBeLimited(ip, p) ==
    LET W == [burst |-> burst_requests, minute |-> minute_requests, hour |-> hour_requests]
        W1 == IF now - last_cleanup > cleanup_interval THEN _cleanup_old_requests(W, now) ELSE W
    IN _is_rate_limited(W1.burst, W1.minute, W1.hour, calls_per_minute, calls_per_hour,
                        burst_limit, ip, p, now).limited

\* C2: budgets are per client IP: a request of one IP, admitted or limited,
\* never changes the verdict a request of another IP would get, and an IP
\* that has sent nothing is admitted on a non-sensitive path whatever the
\* other IPs have sent.
C2_PerIpBudget ==
    [][\A r \in AllReqs :
          (pc[r] = "new" /\ pc'[r] # "new") =>
              \A b \in IPs \ {client_ip'[r]} :
                  /\ \A p \in Paths : WouldBeLimited(b, p)' = WouldBeLimited(b, p)
                  /\ IPLog(b)' = <<>> => ~WouldBeLimited(b, "cards")']_vars

\* ipA has used up its quota, and ipB's request after that was admitted
C2_Witness ==
    \E i, j \in 1..Len(rl_log) :
        /\ i < j
        /\ rl_log[i].ip # rl_log[j].ip
        /\ ~rl_log[i].limited
        /\ ~_is_sensitive_endpoint(rl_log[i].path)
        /\ WouldBeLimited(rl_log[i].ip, "cards")
        /\ ~rl_log[j].limited

\* C3: a request with the rate-limited verdict is never passed to the
\* downstream handler, and the step that limits it appends nothing to the
\* burst, minute or hour window of its client IP.
C3_LimitedNotRecorded ==
    [][\A r \in AllReqs :
          /\ (pc[r] = "new" /\ pc'[r] = "done") =>
                /\ resp'[r].status = 429
                /\ ~forwarded'[r]
                /\ IsSuffix(DictGet(burst_requests', burst_key(client_ip'[r])),
                            DictGet(burst_requests, burst_key(client_ip'[r])))
                /\ IsSuffix(DictGet(minute_requests', minute_key(client_ip'[r])),
                            DictGet(minute_requests, minute_key(client_ip'[r])))
                /\ IsSuffix(DictGet(hour_requests', hour_key(client_ip'[r])),
                            DictGet(hour_requests, hour_key(client_ip'[r])))
          /\ (pc[r] = "done" /\ ~forwarded[r]) => ~forwarded'[r]]_vars

C3_Witness ==
    \E r \in AllReqs :
        /\ pc[r] = "done"
        /\ resp[r].status = 429
        /\ ~forwarded[r]
        /\ DictGet(minute_requests, minute_key(client_ip[r])) # <<>>

\* the number of admitted requests of ip with a timestamp in [t, t + horizon]
AdmittedInSpan(ip, t, horizon) ==
    LET T == AdmittedTimes(ip)
    IN Cardinality({j \in 1..Len(T) : t <= T[j] /\ T[j] <= t + horizon})

\* the window holds each admitted request of the last horizon seconds once
WindowCountsAdmitted(w, ip, horizon) ==
    LET T == AdmittedTimes(ip)
    IN /\ IsSuffix(w, T)
       /\ Len(w) >= Cardinality({j \in 1..Len(T) : now - T[j] <= horizon})

\* C4: under any interleaving of in-flight requests no increment is lost or
\* counted twice (each window is the admitted timestamps of its IP, each
\* once, back to at least its horizon), and the admitted requests with
\* timestamps inside any span of 10, 60 or 3600 seconds never exceed
\* burst_limit, calls_per_minute or calls_per_hour.
C4_NoLostIncrement ==
    \A ip \in IPs :
        /\ WindowCountsAdmitted(DictGet(burst_requests, burst_key(ip)), ip, BURST_WINDOW)
        /\ WindowCountsAdmitted(DictGet(minute_requests, minute_key(ip)), ip, MINUTE_WINDOW)
        /\ WindowCountsAdmitted(DictGet(hour_requests, hour_key(ip)), ip, HOUR_WINDOW)
        /\ LET T == AdmittedTimes(ip)
           IN \A i \in 1..Len(T) :
                /\ AdmittedInSpan(ip, T[i], BURST_WINDOW) <= burst_limit
                /\ AdmittedInSpan(ip, T[i], MINUTE_WINDOW) <= calls_per_minute
                /\ AdmittedInSpan(ip, T[i], HOUR_WINDOW) <= calls_per_hour

C4_Witness ==
    \E r1, r2 \in AllReqs :
        /\ r1 # r2
        /\ client_ip[r1] = client_ip[r2]
        /\ pc[r1] = "call_next" /\ pc[r2] = "call_next"
        /\ Len(DictGet(burst_requests, burst_key(client_ip[r1]))) = 2
        /\ Len(DictGet(minute_requests, minute_key(client_ip[r1]))) = 2
        /\ Len(DictGet(hour_requests, hour_key(client_ip[r1]))) = 2

\* ------------------------------------------------------------------------
\* Properties of the correlation id
\* ------------------------------------------------------------------------
\* C9: every error response, on every path (database error and generic error
\* caught by the middleware, HTTPException handler, validation handler,
\* rate-limit 429), carries an X-Correlation-ID header equal to
\* error.correlation_id of its body.
C9_HeaderEqualsBody ==
    \A r \in AllReqs :
        (pc[r] = "done" /\ resp[r].status >= 400) =>
            /\ resp[r].hdr_cid # NoCid
            /\ resp[r].hdr_cid = resp[r].body_cid

C9_Witness ==
    \E r1, r2 \in AllReqs :
        /\ pc[r1] = "done" /\ resp[r1].status = 429
        /\ pc[r2] = "done" /\ resp[r2].code \in {"DATABASE_ERROR", "HTTP_EXCEPTION", "VALIDATION_ERROR"}
        /\ resp[r1].hdr_cid = resp[r1].body_cid
        /\ resp[r2].hdr_cid = resp[r2].body_cid

\* C10: no two requests are answered with the same correlation id, on any
\* path, 429 responses included.
C10_UniqueCorrelationIds ==
    \A r1, r2 \in AllReqs :
        (r1 # r2 /\ pc[r1] = "done" /\ pc[r2] = "done") =>
            /\ resp[r1].hdr_cid # resp[r2].hdr_cid
            /\ (resp[r1].body_cid # NoCid /\ resp[r2].body_cid # NoCid) =>
                    resp[r1].body_cid # resp[r2].body_cid

C10_Witness ==
    \E r1, r2 \in AllReqs :
        /\ r1 # r2
        /\ pc[r1] = "done" /\ resp[r1].status = 429
        /\ pc[r2] = "done" /\ resp[r2].status = 500
        /\ resp[r1].hdr_cid # resp[r2].hdr_cid

\* ------------------------------------------------------------------------
\* Properties of the retry engine
\* ------------------------------------------------------------------------
\* the sleeps of a call that retried max_retries times: base_delay * n
FullBackoff == [n \in 1..max_retries |-> retry_delay * n]

\* C5: for an operation that raises a connection error on every attempt,
\* execute_with_retry attempts it max_retries + 1 times, sleeps
\* base_delay * n before the n-th retry, and then propagates the exception.
C5_ConnectionRetriedToLimit ==
    (/\ rpc \in {"returned", "raised"}
     /\ plan = AlwaysFails
     /\ \A i \in 1..Len(errs) : action_taken(errs[i]) = "connection_retry")
    => /\ rpc = "raised"
       /\ Len(errs) = max_retries + 1
       /\ delays = FullBackoff

\* C6: an exception tagged constraint_violation or integrity_violation is
\* never retried: the attempt that raised it is the last of the call and
\* the call propagates it.
C6_ViolationsNeverRetried ==
    \A i \in 1..Len(errs) :
        action_taken(errs[i]) \in {"constraint_violation", "integrity_violation"}
        => (i = Len(errs) /\ rpc = "raised")

\* C7: retry state belongs to one invocation: every call of
\* execute_with_retry starts with retry count 0, whatever the outcome of the
\* calls before it.
C7_RetryStatePerInvocation ==
    rpc # "idle" => start_count = 0

\* C8: an operation that fails k times (1 <= k <= max_retries) with
\* recoverable errors and then succeeds has its result returned, without an
\* exception, and retry_count is 0 at the return.
C8_RecoveredTransparently ==
    (/\ plan \in 1..max_retries
     /\ \A i \in 1..Len(errs) : _is_recoverable_error(errs[i]))
    => /\ rpc # "raised"
       /\ rpc = "returned" => (Len(errs) = plan /\ retry_count = 0)

\* ------------------------------------------------------------------------
\* Properties of the error mapping
\* ------------------------------------------------------------------------
\* the request went through its route handler and has been answered
Answered(r) == pc[r] = "done" /\ forwarded[r]

\* C11: a failure escaping the route handler is mapped by its kind:
\* SQLAlchemyError gives 500 DATABASE_ERROR, any other non-HTTP exception
\* gives 500 INTERNAL_SERVER_ERROR, a request validation failure gives 422
\* VALIDATION_ERROR with one details entry per violation, and an
\* HTTPException keeps the status code it was raised with.
C11_MappedByKind ==
    \A r \in AllReqs :
        Answered(r) =>
            /\ raised[r].kind = "SQLAlchemyError"
               => (resp[r].status = 500 /\ resp[r].code = "DATABASE_ERROR")
            /\ raised[r].kind = "Exception"
               => (resp[r].status = 500 /\ resp[r].code = "INTERNAL_SERVER_ERROR")
            /\ raised[r].kind = "RequestValidationError"
               => (resp[r].status = 422 /\ resp[r].code = "VALIDATION_ERROR"
                   /\ resp[r].details = raised[r].errors)
            /\ raised[r].kind = "HTTPException"
               => resp[r].status = raised[r].status_code

C11_Witness ==
    \E r1, r2 \in AllReqs :
        /\ Answered(r1) /\ Answered(r2)
        /\ raised[r1].kind = "RequestValidationError"
        /\ raised[r1].errors = MaxErrors
        /\ resp[r1].details = MaxErrors
        /\ raised[r2].kind = "HTTPException"
        /\ raised[r2].status_code = HTTP_400_BAD_REQUEST
        /\ resp[r2].status = HTTP_400_BAD_REQUEST

\* what a handler raised, apart from the text of the exception
WithoutText(o) == [o EXCEPT !.text = "", !.detail = <<>>]

\* C12: the message of an error envelope does not depend on the text of the
\* raised exception: two requests that fail in the same handler in the same
\* way, with whatever exception texts, get the same message.
C12_MessageIndependentOfText ==
    \A r1, r2 \in AllReqs :
        (/\ Answered(r1) /\ Answered(r2)
         /\ raised[r1].kind # "ok"
         /\ WithoutText(raised[r1]) = WithoutText(raised[r2]))
        => resp[r1].message = resp[r2].message

\* ------------------------------------------------------------------------
\* Properties of authentication
\* ------------------------------------------------------------------------
\* the latest request went to a protected route without a token that
\* get_current_user accepts
RejectedToken ==
    /\ last.route \in ProtectedRoutes
    /\ last.user = None

\* C13: a request to a protected route whose bearer token is absent,
\* malformed, expired or otherwise invalid is answered with HTTP 401 and the
\* response header WWW-Authenticate: Bearer.
C13_Unauthorized ==
    RejectedToken =>
        /\ last.resp.status = HTTP_401_UNAUTHORIZED
        /\ last.resp.www_authenticate = "Bearer"

\* the token checks of the application at the present time
Accepts(tok) == AuthService_get_current_user(users, tok, clock)

\* the tokens create_access_token makes for an active user with any
\* expires_delta, now or 1, 29, 30 or 31 minutes ago
IssuableTokens ==
    {create_access_token(create_user_token_data(u), delta, t) :
        u \in {x \in users : x.is_active}, delta \in Deltas,
        t \in {clock - d : d \in {0, 1, 29, 30, 31}} \cap Nat}

ProtectedStatus(tok) ==
    LET c == get_current_active_user(users, tok, clock)
    IN IF c.user = None THEN Respond(c.outcome, Uuid(0)).status ELSE 200

FailedLogins ==
    {c \in [username : Usernames, password : Passwords] :
        \/ ~\E u \in users : u.username = c.username
        \/ \E u \in users : u.username = c.username /\ ~u.is_active
        \/ \E u \in users : u.username = c.username
                            /\ ~verify_password(c.password, u.hashed_password)}

\* what the client sees of a response, the correlation id apart
Visible(response) == [response EXCEPT !.hdr_cid = NoCid, !.body_cid = NoCid]

\* C16: authenticate_user returns none for an unknown username, an inactive
\* user and a wrong password alike, and the login response (status 401 and
\* body) is the same in the three cases.
C16_NoUsernameEnumeration ==
    /\ \A c \in FailedLogins :
          /\ authenticate_user(users, c.username, c.password) = None
          /\ Respond(login(users, c.username, c.password, clock).outcome, Uuid(0)).status
                = HTTP_401_UNAUTHORIZED
    /\ \A c1, c2 \in FailedLogins :
          Visible(Respond(login(users, c1.username, c1.password, clock).outcome, Uuid(0)))
          = Visible(Respond(login(users, c2.username, c2.password, clock).outcome, Uuid(0)))
    /\ (last.route = "login" /\ [username |-> last.username, password |-> last.password] \in FailedLogins)
       => (last.resp.status = HTTP_401_UNAUTHORIZED /\ last.access_token = None)

\* a failed login of the inactive user with its right password
C16_Witness ==
    /\ last.route = "login"
    /\ last.username = "inactive"
    /\ last.password = "PASSWORD"
    /\ last.resp.status = HTTP_401_UNAUTHORIZED
    /\ last.resp.message = <<DETAIL_INVALID_CREDENTIALS>>

\* ------------------------------------------------------------------------
\* Properties of data ownership
\* ------------------------------------------------------------------------
\* the user a card belongs to, through its account
CardOwners(card_id) ==
    {a.user_id : a \in {x \in accounts : \E c \in cards : c.id = card_id /\ c.account_id = x.id}}

TransactionOwners(transaction_id) ==
    UNION {CardOwners(t.card_id) : t \in {x \in transactions : x.id = transaction_id}}

\* C17: a user only reads their own data: GET /cards/{id} and
\* GET /transactions/{id} return the resource only when it belongs to the
\* authenticated user's account and answer 404 otherwise, and the list
\* endpoints never include a card or transaction of another user.
C17_OwnDataOnly ==
    /\ dlast.route \in {"get_my_cards", "get_card_details"}
       => \A id \in dlast.ids : CardOwners(id) = {dlast.user_id}
    /\ dlast.route \in {"get_my_transactions", "get_transaction_details"}
       => \A id \in dlast.ids : TransactionOwners(id) = {dlast.user_id}
    /\ dlast.route = "get_card_details"
       => /\ dlast.status = (IF dlast.user_id \in CardOwners(dlast.id) THEN 200 ELSE 404)
          /\ dlast.ids = (IF dlast.user_id \in CardOwners(dlast.id) THEN {dlast.id} ELSE {})
    /\ dlast.route = "get_transaction_details"
       => /\ dlast.status = (IF dlast.user_id \in TransactionOwners(dlast.id) THEN 200 ELSE 404)
          /\ dlast.ids = (IF dlast.user_id \in TransactionOwners(dlast.id) THEN {dlast.id} ELSE {})

\* a user asks for an existing card of the other user and gets 404
C17_Witness ==
    /\ dlast.route = "get_card_details"
    /\ dlast.status = 404
    /\ CardOwners(dlast.id) # {}
    /\ dlast.user_id \notin CardOwners(dlast.id)

\* ------------------------------------------------------------------------
\* EncryptionService.sanitize_input (services/encryption_service.py); a str
\* is the sequence of its characters
\* ------------------------------------------------------------------------
MaxLen == 5

\* the characters a client string is made of
Chars == {"e", "V", "a", "l", "(", "<"}

\* str.upper()
upper(s) ==
    [i \in 1..Len(s) |->
        IF \E k \in 1..Len(LOWER) : LOWER[k] = s[i]
        THEN UPPER[CHOOSE k \in 1..Len(LOWER) : LOWER[k] = s[i]]
        ELSE s[i]]

\* str.capitalize(): the first character upper-cased, the rest lower-cased
capitalize(s) ==
    IF s = <<>> THEN s ELSE upper(<<s[1]>>) \o lower(Tail(s))

RECURSIVE replace(_, _, _)
\* str.replace(old, new) for a non-empty old: every occurrence, leftmost
\* first, without overlap, in one pass
replace(s, old, new) ==
    IF Len(s) < Len(old) THEN s
    ELSE IF SubSeq(s, 1, Len(old)) = old
         THEN new \o replace(SubSeq(s, Len(old) + 1, Len(s)), old, new)
         ELSE <<s[1]>> \o replace(Tail(s), old, new)

whitespace == {" "}

RECURSIVE lstrip(_)
lstrip(s) == IF s # <<>> /\ s[1] \in whitespace THEN lstrip(Tail(s)) ELSE s

RECURSIVE rstrip(_)
rstrip(s) ==
    IF s # <<>> /\ s[Len(s)] \in whitespace THEN rstrip(SubSeq(s, 1, Len(s) - 1)) ELSE s

\* str.strip()
strip(s) == rstrip(lstrip(s))

dangerous_patterns ==
   <<
      <<"<","s","c","r","i","p","t">>,
      <<"<","/","s","c","r","i","p","t",">">>,
      <<"j","a","v","a","s","c","r","i","p","t",":">>,
      <<"v","b","s","c","r","i","p","t",":">>,
      <<"o","n","l","o","a","d","=">>,
      <<"o","n","e","r","r","o","r","=">>,
      <<"o","n","c","l","i","c","k","=">>,
      <<"e","v","a","l","(">>,
      <<"e","x","e","c","(">>,
      <<"D","R","O","P"," ","T","A","B","L","E">>,
      <<"D","E","L","E","T","E"," ","F","R","O","M">>,
      <<"I","N","S","E","R","T"," ","I","N","T","O">>,
      <<"U","P","D","A","T","E"," ","S","E","T">>,
      <<"-","-">>,
      <<"/","*">>,
      <<"*","/">>,
      <<"U","N","I","O","N"," ","S","E","L","E","C","T">>,
      <<"O","R"," ","1","=","1">>,
      <<"A","N","D"," ","1","=","1">>
   >>

\* pattern.lower(), pattern.upper() and pattern.capitalize() of every pattern
pattern_variants ==
    [n \in 1..Len(dangerous_patterns) |->
        <<lower(dangerous_patterns[n]), upper(dangerous_patterns[n]),
          capitalize(dangerous_patterns[n])>>]

RECURSIVE remove_patterns(_, _)
\* the loop over dangerous_patterns from the n-th pattern on: three
\* replacements for each pattern, in the order of the list (nothing is left
\* to replace in an empty string)
remove_patterns(s, n) ==
    IF s = <<>> \/ n > Len(dangerous_patterns) THEN s
    ELSE LET s1 == replace(s, pattern_variants[n][1], <<>>)
             s2 == replace(s1, pattern_variants[n][2], <<>>)
             s3 == replace(s2, pattern_variants[n][3], <<>>)
         IN  remove_patterns(s3, n + 1)

\* the five replacements of special characters, in the order of the source
escape_special(s) ==
    LET s1 == replace(s, <<"<">>, <<"&","l","t",";">>)
        s2 == replace(s1, <<">">>, <<"&","g","t",";">>)
        s3 == replace(s2, <<"\"">>, <<"&","q","u","o","t",";">>)
        s4 == replace(s3, <<"'">>, <<"&","#","x","2","7",";">>)
    IN  replace(s4, <<"&">>, <<"&","a","m","p",";">>)

sanitize_input(data) ==
    IF data = <<>> THEN data
    ELSE strip(escape_special(remove_patterns(data, 1)))

\* ------------------------------------------------------------------------
\* InputSanitizerMiddleware (middleware/input_sanitizer.py). A parsed JSON
\* value is a record: a str, an int, a list of values, or a dict held as the
\* sequence of its <<key, value>> items in insertion order.
\* ------------------------------------------------------------------------
JStr(s) == [type |-> "str", value |-> s, items |-> <<>>]
JInt(n) == [type |-> "int", value |-> <<n>>, items |-> <<>>]
JList(items) == [type |-> "list", value |-> <<>>, items |-> items]
JDict(items) == [type |-> "dict", value |-> <<>>, items |-> items]

\* sanitized[key] = value on a dict: a key already present keeps its place
\* and takes the new value
dict_set(d, key, value) ==
    IF \E k \in 1..Len(d) : d[k][1] = key
    THEN [k \in 1..Len(d) |-> IF d[k][1] = key THEN <<key, value>> ELSE d[k]]
    ELSE Append(d, <<key, value>>)

RECURSIVE _sanitize_data(_)
RECURSIVE sanitize_items(_, _)
\* the loop of _sanitize_data over data.items(), from the i-th item on
sanitize_items(items, i) ==
    IF i = 0 THEN <<>>
    ELSE dict_set(sanitize_items(items, i - 1),
                  sanitize_input(items[i][1]),
                  _sanitize_data(items[i][2]))

_sanitize_data(data) ==
    CASE data.type = "dict" -> JDict(sanitize_items(data.items, Len(data.items)))
      [] data.type = "list" ->
            JList([i \in 1..Len(data.items) |-> _sanitize_data(data.items[i])])
      [] data.type = "str" -> JStr(sanitize_input(data.value))
      [] OTHER -> data

\* a request body: empty, text that json.loads rejects, or the text of a
\* JSON value
EmptyBody == [kind |-> "empty", data |-> JStr(<<>>)]
InvalidBody(s) == [kind |-> "invalid", data |-> JStr(s)]
JsonBody(data) == [kind |-> "json", data |-> data]

\* json.loads(body.decode()): the value, or nothing on JSONDecodeError
json_loads(body) == IF body.kind = "json" THEN Some(body.data) ELSE None

\* json.dumps(data).encode()
json_dumps(data) == JsonBody(data)

\* the sanitized_params dict built from request.query_params.items()
RECURSIVE sanitized_params(_, _)
sanitized_params(query, i) ==
    IF i = 0 THEN <<>>
    ELSE dict_set(sanitized_params(query, i - 1),
                  sanitize_input(query[i][1]), sanitize_input(query[i][2]))

\* InputSanitizerMiddleware.dispatch up to call_next(request): the request
\* it hands on, and whether it logged that the query parameters differ
InputSanitizer_dispatch(request) ==
    LET loaded == json_loads(request.body)
        body == IF /\ request.method \in {"POST", "PUT", "PATCH"}
                   /\ request.body.kind # "empty"
                   /\ loaded # None
                THEN json_dumps(_sanitize_data(Value(loaded)))
                ELSE request.body
        logged == /\ request.query # <<>>
                  /\ sanitized_params(request.query, Len(request.query)) # request.query
    IN  [method |-> request.method, body |-> body, query |-> request.query,
         logged |-> logged]

\* the shapes of the requests of the model around the client's string s
Shapes == {"leaf", "nested", "invalid", "query"}

ClientRequest(shape, s) ==
    CASE shape = "leaf" ->
            [method |-> "POST", body |-> JsonBody(JStr(s)), query |-> <<>>]
      [] shape = "nested" ->
            [method |-> "PUT",
             body |-> JsonBody(JDict(<< <<s, JList(<<JInt(1),
                                                     JDict(<< <<s, JStr(s)>> >>)>>)>> >>)),
             query |-> <<>>]
      [] shape = "invalid" ->
            [method |-> "PATCH", body |-> InvalidBody(s), query |-> <<>>]
      [] shape = "query" ->
            [method |-> "GET", body |-> EmptyBody, query |-> << <<s, s>> >>]

\* the client adds a character to its string, before it is used
Type(c) ==
    /\ Len(input_data) < MaxLen
    /\ sanitized = None
    /\ delivered.method = ""
    /\ input_data' = Append(input_data, c)
    /\ UNCHANGED <<sanitized, delivered>>
    /\ UNCHANGED nonSanitizeVars

\* the string goes to sanitize_input directly
Sanitize ==
    /\ sanitized = None
    /\ delivered.method = ""
    /\ sanitized' = Some(sanitize_input(input_data))
    /\ UNCHANGED <<input_data, delivered>>
    /\ UNCHANGED nonSanitizeVars

\* or the string goes into one request through InputSanitizerMiddleware
SanitizerDispatch(shape) ==
    /\ delivered.method = ""
    /\ sanitized = None
    /\ LET request == ClientRequest(shape, input_data)
           handed == InputSanitizer_dispatch(request)
       IN  delivered' = [method |-> request.method, shape |-> shape,
                         sent |-> request, body |-> handed.body,
                         query |-> handed.query]
    /\ UNCHANGED <<input_data, sanitized>>
    /\ UNCHANGED nonSanitizeVars

NextSanitize ==
    \/ \E c \in Chars : Type(c)
    \/ Sanitize
    \/ \E shape \in Shapes : SanitizerDispatch(shape)

SpecSanitize == Init /\ [][NextSanitize]_vars

\* ------------------------------------------------------------------------
\* Claims about input sanitizing
\* ------------------------------------------------------------------------
RECURSIVE Strings(_)
\* the strings of a JSON value: its string leaves and its dict keys, at any depth
Strings(data) ==
    CASE data.type = "str" -> {data.value}
      [] data.type = "list" ->
            UNION {Strings(data.items[k]) : k \in 1..Len(data.items)}
      [] data.type = "dict" ->
            UNION {{data.items[k][1]} \cup Strings(data.items[k][2]) :
                     k \in 1..Len(data.items)}
      [] OTHER -> {}

\* the request that was handed on carries a JSON body of a POST, PUT or PATCH
JsonBodyDelivered ==
    /\ delivered.method \in {"POST", "PUT", "PATCH"}
    /\ delivered.sent.body.kind = "json"

\* C18: every string the route handler receives from a JSON request body
\* (POST/PUT/PATCH, at any depth) or from a query-parameter key or value is
\* the sanitize_input image of what the client sent
C18_HandlerSeesSanitized ==
    delivered.method # "" =>
        /\ JsonBodyDelivered =>
              Strings(delivered.body.data) =
                  {sanitize_input(x) : x \in Strings(delivered.sent.body.data)}
        /\ Len(delivered.query) = Len(delivered.sent.query)
        /\ \A k \in 1..Len(delivered.query) :
              /\ delivered.query[k][1] = sanitize_input(delivered.sent.query[k][1])
              /\ delivered.query[k][2] = sanitize_input(delivered.sent.query[k][2])

\* the characters sanitize_input has to escape
Special == {"<", ">", "\"", "'"}

\* C19: the output of sanitize_input contains, compared case-insensitively,
\* none of the denylisted substrings, and none of the characters < > " '
C19_DenylistRemoved ==
    sanitized # None =>
        LET out == Value(sanitized)
        IN  /\ \A n \in 1..Len(dangerous_patterns) :
                  ~Contains(lower(out), lower(dangerous_patterns[n]))
            /\ \A k \in 1..Len(out) : out[k] \notin Special

\* ------------------------------------------------------------------------
\* EncryptionService: encrypt, decrypt, encrypt_card_number and
\* decrypt_card_number (services/encryption_service.py)
\* ------------------------------------------------------------------------
MaxDigits == 3
MaxEncryptions == 2

\* the characters a card number is written with
CardChars == {"4", "2", " "}

Digits == {"0", "1", "2", "3", "4", "5", "6", "7", "8", "9"}

\* str.isdigit() of one character
isdigit(c) == c \in Digits

\* the key of self._fernet, derived once from self._key, and any other key
_fernet == "derived"
OtherKey == "other"

FERNET_VERSION == 128
AES_BLOCK == 16

\* Fernet.encrypt(data) under key with the initialisation vector iv: version
\* byte, IV, the AES-CBC encryption of the padded data, and the HMAC of all
\* of it under the key
Fernet_encrypt(key, data, iv) ==
    [version |-> FERNET_VERSION, iv |-> iv, plaintext |-> data, hmac |-> key]

\* Fernet.decrypt(token) under key: the data, or nothing on InvalidToken
Fernet_decrypt(key, token) ==
    IF token.version = FERNET_VERSION /\ token.hmac = key
    THEN Some(token.plaintext)
    ELSE None

\* base64.urlsafe_b64encode(b).decode() and base64.urlsafe_b64decode(s.encode())
urlsafe_b64encode(b) == [b64 |-> b]
urlsafe_b64decode(s) == s.b64

\* the number of characters of the base64 text of n bytes
b64_len(n) == 4 * ((n + 2) \div 3)

\* the number of bytes of a Fernet token as Fernet.encrypt returns it: the
\* base64 text of version (1), timestamp (8), IV (16), the data padded to whole
\* AES blocks, and HMAC (32)
token_len(token) ==
    b64_len(1 + 8 + 16 + AES_BLOCK * (Len(token.plaintext) \div AES_BLOCK + 1) + 32)

\* len() of what encrypt returned
encrypted_len(s) == IF s = <<>> THEN 0 ELSE b64_len(token_len(urlsafe_b64decode(s)))

\* what a call returned, or the exception it raised
Return(value) == [raised |-> "", value |-> value]
ValueError == [raised |-> "ValueError", value |-> <<>>]

encryptFixedIv(data, iv) ==
    IF data = <<>> THEN data
    ELSE urlsafe_b64encode(Fernet_encrypt(_fernet, data, 0))

\* encrypt(data), iv being what os.urandom gives Fernet for this call
encrypt(data, iv) ==
    IF data = <<>> THEN data
    ELSE urlsafe_b64encode(Fernet_encrypt(_fernet, data, iv))

decrypt(encrypted_data) ==
    IF encrypted_data = <<>> THEN Return(encrypted_data)
    ELSE LET decrypted_data == Fernet_decrypt(_fernet, urlsafe_b64decode(encrypted_data))
         IN  IF decrypted_data = None THEN ValueError
             ELSE Return(Value(decrypted_data))

encrypt_card_number(number, iv) ==
    LET clean_number == SelectSeq(number, isdigit)
    IN  encrypt(clean_number, iv)

decrypt_card_number(encrypted_card_number) == decrypt(encrypted_card_number)

\* the same text with its Fernet token signed under another key
Forged(s) ==
    IF s = <<>> THEN s
    ELSE urlsafe_b64encode([urlsafe_b64decode(s) EXCEPT !.hmac = OtherKey])

\* decrypt_card_number was not called on this ciphertext yet
NotDecrypted == [given |-> <<>>, raised |-> "", value |-> <<>>, called |-> FALSE]

\* a character is added to the card number, before it is encrypted
TypeCard(c) ==
    /\ Len(card_number) < MaxDigits
    /\ encrypted = <<>>
    /\ card_number' = Append(card_number, c)
    /\ UNCHANGED <<next_iv, encrypted, decrypted>>
    /\ UNCHANGED nonEncryptVars

\* encrypt_card_number(card_number); Fernet draws a fresh IV when it is called
EncryptCard ==
    /\ Len(encrypted) < MaxEncryptions
    /\ encrypted' = Append(encrypted, encrypt_card_number(card_number, next_iv))
    /\ decrypted' = Append(decrypted, NotDecrypted)
    /\ next_iv' = IF SelectSeq(card_number, isdigit) = <<>> THEN next_iv ELSE next_iv + 1
    /\ UNCHANGED card_number
    /\ UNCHANGED nonEncryptVars

\* decrypt_card_number on the k-th ciphertext, or on a forgery of it
DecryptCard(k, forged) ==
    /\ k \in 1..Len(encrypted)
    /\ ~decrypted[k].called
    /\ LET given == IF forged THEN Forged(encrypted[k]) ELSE encrypted[k]
           result == decrypt_card_number(given)
       IN  decrypted' = [decrypted EXCEPT ![k] =
                            [given |-> given, raised |-> result.raised,
                             value |-> result.value, called |-> TRUE]]
    /\ UNCHANGED <<card_number, next_iv, encrypted>>
    /\ UNCHANGED nonEncryptVars

NextEncrypt ==
    \/ \E c \in CardChars : TypeCard(c)
    \/ EncryptCard
    \/ \E k \in 1..MaxEncryptions, forged \in BOOLEAN : DecryptCard(k, forged)

SpecEncrypt == Init /\ [][NextEncrypt]_vars

\* ------------------------------------------------------------------------
\* Claims about card number encryption
\* ------------------------------------------------------------------------
\* the card number is a digit string: digits only, at least one
DigitString == card_number # <<>> /\ \A k \in 1..Len(card_number) : isdigit(card_number[k])

MaxGroups == 4

\* a card number is written in groups of four characters
Groups == {<<"4","5","3","2">>, <<"1","2","3","4">>, <<"5","6"," ","8">>}

ENCRYPTED_MIN_LEN == 20
VISIBLE_DIGITS == 4

\* the IVs os.urandom may give when the card is stored
IVs == {0, 1}

PLACEHOLDER ==
    <<"*","*","*","*"," ","*","*","*","*"," ","*","*","*","*"," ","*","*","*","*">>

\* len(card_number)
column_len(c) == IF c.kind = "cipher" THEN encrypted_len(c.cipher) ELSE Len(c.plain)

\* decrypt_card_number(card_number): a plain text is no token of any key
decrypt_column(c) ==
    IF c.kind = "cipher" THEN decrypt_card_number(c.cipher) ELSE ValueError

\* "*" * n
stars(n) == [i \in 1..n |-> "*"]

RECURSIVE join_groups(_)
\* ' '.join([masked[i:i+4] for i in range(0, len(masked), 4)])
join_groups(masked) ==
    IF Len(masked) <= VISIBLE_DIGITS THEN masked
    ELSE SubSeq(masked, 1, VISIBLE_DIGITS) \o <<" ">>
            \o join_groups(SubSeq(masked, VISIBLE_DIGITS + 1, Len(masked)))

mask_card_numberFirstDigits(c) ==
    LET plain_number == IF column_len(c) > ENCRYPTED_MIN_LEN
                     THEN decrypt_column(c) ELSE Return(c.plain)
    IN  IF plain_number.raised # "" THEN PLACEHOLDER
        ELSE LET clean_number == SelectSeq(plain_number.value, isdigit)
             IN  IF Len(clean_number) < VISIBLE_DIGITS THEN stars(Len(clean_number))
                 ELSE join_groups(stars(Len(clean_number) - VISIBLE_DIGITS)
                                  \o SubSeq(clean_number, 1, VISIBLE_DIGITS))

\* EncryptionService.mask_card_number
mask_card_number(c) ==
    LET plain_number == IF column_len(c) > ENCRYPTED_MIN_LEN
                     THEN decrypt_column(c) ELSE Return(c.plain)
    IN  IF plain_number.raised # "" THEN PLACEHOLDER
        ELSE LET clean_number == SelectSeq(plain_number.value, isdigit)
             IN  IF Len(clean_number) < VISIBLE_DIGITS THEN stars(Len(clean_number))
                 ELSE join_groups(stars(Len(clean_number) - VISIBLE_DIGITS)
                                  \o SubSeq(clean_number,
                                            Len(clean_number) - VISIBLE_DIGITS + 1,
                                            Len(clean_number)))

\* CardService.mask_card_number: the call above raises nothing
CardService_mask_card_number(c) == mask_card_number(c)

\* the masked_card_number of card_to_response(card)
card_to_response(card) == CardService_mask_card_number(card)

\* the ways the number gets into credit_cards.card_number
Forms == {"plain", "encrypted", "forged"}

\* a group of four characters is added to the card number, before it is stored
TypeGroup(g) ==
    /\ Len(card_digits) < VISIBLE_DIGITS * MaxGroups
    /\ stored = NoCard
    /\ card_digits' = card_digits \o g
    /\ UNCHANGED <<stored, masked_card_number>>
    /\ UNCHANGED nonMaskVars

\* the card is stored: as it is, through encrypt_card_number as
\* create_sample_cards does, or as a token of another key
StoreCard(form, iv) ==
    /\ stored = NoCard
    /\ stored' = CASE form = "plain" -> Plain(card_digits)
                   [] form = "encrypted" -> Cipher(encrypt_card_number(card_digits, iv))
                   [] form = "forged" ->
                        Cipher(Forged(encrypt_card_number(card_digits, iv)))
    /\ UNCHANGED <<card_digits, masked_card_number>>
    /\ UNCHANGED nonMaskVars

\* card_to_response on the stored card
CardToResponse ==
    /\ stored # NoCard
    /\ masked_card_number = None
    /\ masked_card_number' = Some(card_to_response(stored))
    /\ UNCHANGED <<card_digits, stored>>
    /\ UNCHANGED nonMaskVars

NextMask ==
    \/ \E g \in Groups : TypeGroup(g)
    \/ \E form \in Forms, iv \in IVs : StoreCard(form, iv)
    \/ CardToResponse

SpecMask == Init /\ [][NextMask]_vars

\* ------------------------------------------------------------------------
\* Claims about card number masking
\* ------------------------------------------------------------------------
\* the card number is a string of sixteen digits
SixteenDigits ==
    /\ Len(card_digits) = 16
    /\ \A k \in 1..Len(card_digits) : isdigit(card_digits[k])

\* the stored text cannot be decrypted under the key of the service
DecryptionFails ==
    /\ stored.kind = "cipher"
    /\ stored.cipher # <<>>
    /\ decrypt_card_number(stored.cipher).raised # ""

\* C21: mask_card_number of a 16-digit card number, given as plaintext or as
\* its ciphertext, is exactly '**** **** **** dddd' (19 characters) with dddd
\* the last four digits; the full number is no substring of the result; when
\* decryption fails the result is the fully masked placeholder
C21_MaskShape ==
    masked_card_number # None =>
        LET result == Value(masked_card_number)
        IN  /\ (SixteenDigits /\ ~DecryptionFails) =>
                  /\ result = stars(4) \o <<" ">> \o stars(4) \o <<" ">> \o stars(4)
                                 \o <<" ">> \o SubSeq(card_digits, 13, 16)
                  /\ Len(result) = 19
                  /\ ~Contains(result, card_digits)
            /\ DecryptionFails => result = PLACEHOLDER

C21_Witness ==
    /\ masked_card_number # None
    /\ SixteenDigits
    /\ stored.kind = "cipher"
    /\ ~DecryptionFails

\* ------------------------------------------------------------------------
\* Claims about the windows of the rate limiter
\* ------------------------------------------------------------------------
\* every timestamp of window q is within the horizon at time t
Fresh(q, t, horizon) == \A i \in 1..Len(q) : t - q[i] <= horizon

\* request r goes through RateLimitMiddleware.dispatch in this step
Dispatched(r) == pc[r] = "new" /\ pc'[r] # "new"

\* C22: whenever a limit is compared against a window, or a timestamp is
\* appended to it, that window of the requesting IP holds only timestamps no
\* older than its horizon (10 s, 60 s, 3600 s) relative to the time of the
\* request: the burst window always, the minute window unless the burst check
\* rejected, the hour window unless the burst or the minute check rejected
C22_HorizonTrimmed ==
    [][\A r \in AllReqs :
          Dispatched(r) =>
              LET ip == client_ip'[r]
                  e == rl_log'[Len(rl_log')]
                  B == DictGet(burst_requests', burst_key(ip))
                  M == DictGet(minute_requests', minute_key(ip))
                  H == DictGet(hour_requests', hour_key(ip))
                  burst_passed == ~e.limited \/ ~Exceeds(Len(B), burst_limit)
                  minute_passed == ~e.limited \/ ~Exceeds(Len(M), calls_per_minute)
              IN  /\ Fresh(B, e.t, BURST_WINDOW)
                  /\ burst_passed => Fresh(M, e.t, MINUTE_WINDOW)
                  /\ (burst_passed /\ minute_passed) => Fresh(H, e.t, HOUR_WINDOW)]_vars

\* an admitted request of an IP came more than an hour after an admitted one
\* of the same IP, whose timestamp has left all three windows
C22_Witness ==
    \E i, j \in 1..Len(rl_log) :
        /\ i < j
        /\ rl_log[i].ip = rl_log[j].ip
        /\ ~rl_log[i].limited /\ ~rl_log[j].limited
        /\ rl_log[j].t - rl_log[i].t > HOUR_WINDOW
        /\ DictGet(hour_requests, hour_key(rl_log[j].ip)) = <<rl_log[j].t>>
        /\ DictGet(burst_requests, burst_key(rl_log[j].ip)) = <<rl_log[j].t>>

\* C27: with all three limits at least 1, a request from a client IP whose
\* three windows are empty is admitted on every path, the sensitive paths
\* included
C27_EmptyWindowsAdmitted ==
    [][\A r \in AllReqs :
          Dispatched(r) =>
              LET ip == client_ip'[r]
              IN  (/\ calls_per_minute >= 1 /\ calls_per_hour >= 1 /\ burst_limit >= 1
                   /\ DictGet(burst_requests, burst_key(ip)) = <<>>
                   /\ DictGet(minute_requests, minute_key(ip)) = <<>>
                   /\ DictGet(hour_requests, hour_key(ip)) = <<>>)
                  => ~rl_log'[Len(rl_log')].limited]_vars

\* the number of times x occurs in window q
Occurrences(q, x) == Cardinality({i \in 1..Len(q) : q[i] = x})

\* window a is a sub-multiset of window b
SubMultiset(a, b) == \A i \in 1..Len(a) : Occurrences(a, a[i]) <= Occurrences(b, a[i])

\* window q is ordered oldest first
OldestFirst(q) == \A i, j \in 1..Len(q) : i < j => q[i] <= q[j]

\* C30: for every client IP, in every reachable state, the timestamps of the
\* burst window are a sub-multiset of those of the minute window, which are a
\* sub-multiset of those of the hour window, and each window is ordered
\* oldest first
C30_NestedWindows ==
    \A ip \in IPs :
        LET B == DictGet(burst_requests, burst_key(ip))
            M == DictGet(minute_requests, minute_key(ip))
            H == DictGet(hour_requests, hour_key(ip))
        IN  /\ SubMultiset(B, M) /\ SubMultiset(M, H)
            /\ Len(B) <= Len(M) /\ Len(M) <= Len(H)
            /\ OldestFirst(B) /\ OldestFirst(M) /\ OldestFirst(H)

\* an IP whose burst window has lost a timestamp that its minute window keeps
C30_Witness ==
    \E ip \in IPs :
        /\ Len(DictGet(burst_requests, burst_key(ip))) = 1
        /\ Len(DictGet(minute_requests, minute_key(ip))) = 2
        /\ Len(DictGet(hour_requests, hour_key(ip))) = 2

\* ------------------------------------------------------------------------
\* Classification and termination of the retry loops
\* ------------------------------------------------------------------------
TableTimeout(e) ==
    \/ Contains(lower(error_msg(e)), <<"t","i","m","e","o","u","t">>)
    \/ Contains(lower(error_msg(e)), <<"t","i","m","e"," ","o","u","t">>)

TableConnection(e) ==
    /\ ~TableTimeout(e)
    /\ \E w \in {<<"c","o","n","n","e","c","t","i","o","n">>, <<"n","e","t","w","o","r","k">>,
                 <<"h","o","s","t">>, <<"r","e","f","u","s","e","d">>} :
           Contains(lower(error_msg(e)), w)

\* C24: every error an attempt raised is tagged as the table says
\* (timeout_retry for a timeout message, connection_retry for a connection
\* message without timeout), and an error with either tag is recoverable:
\* it is retried while retry_count < max_retries, so the call propagates it
\* only with the counter at max_retries.
C24_TaggedErrorsRecoverable ==
    \A i \in 1..Len(errs) :
        /\ TableTimeout(errs[i]) => action_taken(errs[i]) = "timeout_retry"
        /\ TableConnection(errs[i]) => action_taken(errs[i]) = "connection_retry"
        /\ action_taken(errs[i]) \in {"timeout_retry", "connection_retry"}
           => /\ _is_recoverable_error(errs[i])
              /\ (i = Len(errs) /\ rpc = "raised") => retry_count >= max_retries

MaxAttempts == 5
MaxNestedCalls == 1

\* execute_with_retry is called with an operation that makes such calls
OuterCall ==
    /\ ncalls < MaxNestedCalls
    /\ Call

\* the operation under execute_with_retry calls create_db_and_tables or
\* opens a session with get_db_session, and that inner call succeeds:
\* error_handler.reset_retry_count() on the one global handler
InnerCallOk ==
    /\ rpc = "attempt"
    /\ Len(errs) < MaxAttempts
    /\ retry_count' = 0
    /\ UNCHANGED <<rpc, plan, errs, delays, start_count, ncalls, nonRetryVars>>

\* the operation raises after its inner call (attempts observed up to MaxAttempts)
OuterAttemptFail ==
    /\ Len(errs) < MaxAttempts
    /\ AttemptFail

NextNested ==
    \/ OuterCall
    \/ AttemptOk
    \/ OuterAttemptFail
    \/ InnerCallOk

SpecNested == Init /\ [][NextNested]_vars

\* C23: every call terminates: retry_count never exceeds max_retries and
\* the wrapped operation is attempted at most max_retries + 1 times in one
\* call, also when the operation itself calls a retry-wrapped function.
C23_AttemptsBounded ==
    /\ retry_count <= max_retries
    /\ Len(errs) <= max_retries + 1

\* ------------------------------------------------------------------------
\* Sessions: get_db_session (context manager) and get_session (dependency)
\* ------------------------------------------------------------------------
MaxUses == 2

Managers == {"get_db_session", "get_session"}

\* session.close() on the session the generator holds (the last one opened)
close(S) == [S EXCEPT ![Len(S)] = FALSE]

\* session = Session(engine)
open_session(S) == Append(S, TRUE)

\* the caller enters the block: Session(engine); get_session yields at once,
\* get_db_session goes on to its connectivity probe
Enter(m) ==
    /\ gen_pc \in {"idle", "left"}
    /\ nuses < MaxUses
    /\ nuses' = nuses + 1
    /\ manager' = m
    /\ session_open' = open_session(<<>>)
    /\ thrown' = None
    /\ received' = ""
    /\ suspended' = FALSE
    /\ IF m = "get_session"
       THEN gen_pc' = "body" /\ yields' = 1
       ELSE gen_pc' = "probe" /\ yields' = 0
    /\ UNCHANGED <<retry_count, nonSessionCounterVars>>

\* session.execute(text("SELECT 1")) succeeds: reset_retry_count(), yield
\* session. A yield that answers the exception thrown in by __exit__ makes
\* contextlib raise RuntimeError("generator didn't stop after throw()");
\* whether the generator is closed then, or left at its yield until it is
\* collected, depends on the interpreter.
ProbeOk ==
    /\ gen_pc = "probe"
    /\ retry_count' = 0
    /\ yields' = yields + 1
    /\ IF thrown = None
       THEN /\ gen_pc' = "body"
            /\ UNCHANGED <<session_open, received, suspended>>
       ELSE /\ gen_pc' = "left"
            /\ received' = "RuntimeError"
            /\ \E closed \in BOOLEAN :
                  /\ suspended' = ~closed
                  /\ session_open' = IF closed THEN close(session_open) ELSE session_open
    /\ UNCHANGED <<manager, thrown, nuses, nonSessionCounterVars>>

\* except Exception as e (lines 79-97), then the finally clause: the
\* session is closed; a retried error opens the next session, any other is
\* raised out of the generator
Handle(e) ==
    IF should_retry(e, retry_count)
    THEN /\ retry_count' = retry_count + 1
         /\ session_open' = open_session(close(session_open))
         /\ gen_pc' = "probe"
         /\ UNCHANGED received
    ELSE /\ session_open' = close(session_open)
         /\ gen_pc' = "left"
         /\ received' = e
         /\ UNCHANGED retry_count

\* the probe raises e
ProbeFail(e) ==
    /\ gen_pc = "probe"
    /\ Handle(e)
    /\ UNCHANGED <<manager, yields, thrown, suspended, nuses, nonSessionCounterVars>>

\* the body ends normally: the generator resumes, break, finally closes
BodyOk ==
    /\ gen_pc = "body"
    /\ session_open' = close(session_open)
    /\ gen_pc' = "left"
    /\ received' = "ok"
    /\ UNCHANGED <<retry_count, manager, yields, thrown, suspended, nuses, nonSessionCounterVars>>

\* the body raises e, which is thrown into the generator at its yield:
\* get_session has only its finally clause, get_db_session its except clause
BodyRaise(e) ==
    /\ gen_pc = "body"
    /\ thrown' = Some(e)
    /\ IF manager = "get_session"
       THEN /\ session_open' = close(session_open)
            /\ gen_pc' = "left"
            /\ received' = e
            /\ UNCHANGED retry_count
       ELSE Handle(e)
    /\ UNCHANGED <<manager, yields, suspended, nuses, nonSessionCounterVars>>

\* the generator left at its yield is collected: GeneratorExit runs the
\* finally clause
Collect ==
    /\ suspended
    /\ suspended' = FALSE
    /\ session_open' = close(session_open)
    /\ UNCHANGED <<retry_count, gen_pc, manager, yields, thrown, received, nuses, nonSessionCounterVars>>

NextSession ==
    \/ \E m \in Managers : Enter(m)
    \/ ProbeOk
    \/ \E e \in Errors : ProbeFail(e)
    \/ BodyOk
    \/ \E e \in Errors : BodyRaise(e)
    \/ Collect

SpecSession == Init /\ [][NextSession]_vars

\* C26: when the caller has left the block (or the request its dependency),
\* every session opened for it is closed, on every exit path.
C26_SessionsClosedOnExit ==
    gen_pc = "left" => \A i \in 1..Len(session_open) : ~session_open[i]

\* C28: an exception raised by the body of a with get_db_session() block
\* reaches the caller as that same exception, after one yield and with the
\* one session of the block closed, whatever its classification.
C28_BodyExceptionUnchanged ==
    (gen_pc = "left" /\ manager = "get_db_session" /\ thrown # None)
    => /\ received = Value(thrown)
       /\ yields = 1
       /\ session_open = <<FALSE>>

\* ------------------------------------------------------------------------
\* The middleware stack of main.py
\* ------------------------------------------------------------------------
MaxStackReqs == 3

\* the app.add_middleware calls of main.py, in the order they are executed
main_calls ==
    <<"InputSanitizerMiddleware", "RateLimitMiddleware",
      "ErrorHandlerMiddleware", "CORSMiddleware">>

\* Starlette: add_middleware inserts at the front of user_middleware, and
\* the stack is built with the first entry outermost
add_middleware(stack, cls) == <<cls>> \o stack

\* module import of main.py: the next add_middleware call
AddMiddleware ==
    /\ stage = "startup"
    /\ user_middleware' = add_middleware(user_middleware, main_calls[Len(user_middleware) + 1])
    /\ stage' = IF Len(user_middleware) + 1 = Len(main_calls) THEN "idle" ELSE "startup"
    /\ UNCHANGED <<entered, is_limited, is_preflight, nstack, nonStackVars>>

\* a request arrives at the outermost component; limited is the verdict
\* _is_rate_limited will give for it, preflight tells a CORS preflight
Receive(limited, preflight) ==
    /\ stage \in {"idle", "done"}
    /\ nstack < MaxStackReqs
    /\ nstack' = nstack + 1
    /\ entered' = <<>>
    /\ is_limited' = limited
    /\ is_preflight' = preflight
    /\ stage' = "running"
    /\ UNCHANGED <<user_middleware, nonStackVars>>

\* the component answers by itself instead of awaiting call_next
answers(cls) ==
    \/ cls = "CORSMiddleware" /\ is_preflight
    \/ cls = "RateLimitMiddleware" /\ is_limited

\* the request enters the next component: its dispatch runs up to
\* call_next, or the route handler runs below the innermost middleware
CallNext ==
    /\ stage = "running"
    /\ LET n == Len(entered) + 1 IN
       IF n > Len(user_middleware)
       THEN /\ entered' = Append(entered, "route")
            /\ stage' = "done"
       ELSE /\ entered' = Append(entered, user_middleware[n])
            /\ stage' = IF answers(user_middleware[n]) THEN "done" ELSE "running"
    /\ UNCHANGED <<user_middleware, is_limited, is_preflight, nstack, nonStackVars>>

NextStack ==
    \/ AddMiddleware
    \/ \E limited \in BOOLEAN, preflight \in BOOLEAN : Receive(limited, preflight)
    \/ CallNext

SpecStack == Init /\ [][NextStack]_vars

EnteredBefore(a, b) ==
    \A i \in 1..Len(entered) :
        entered[i] = b => \E j \in 1..(i - 1) : entered[j] = a

\* C25: for every request the components run in the order Input Sanitizer,
\* Rate Limiter, Error Handler, route handler: the sanitizer has run when
\* the rate limiter is entered, the rate limiter when the error handler is
\* entered, and the error handler when the route handler is entered.
C25_PipelineOrder ==
    /\ EnteredBefore("InputSanitizerMiddleware", "RateLimitMiddleware")
    /\ EnteredBefore("RateLimitMiddleware", "ErrorHandlerMiddleware")
    /\ EnteredBefore("ErrorHandlerMiddleware", "route")

\* ------------------------------------------------------------------------
\* POST /auth/login behind InputSanitizerMiddleware
\* ------------------------------------------------------------------------
MaxPieces == 3

\* the pieces a client's password is made of
Pieces ==
    {<<"P","A","S","S">>, <<"W","O","R","D">>, <<"-","-">>, <<" ">>, <<"<">>}

ADMIN001 == <<"A","D","M","I","N","0","0","1">>
USER0001 == <<"U","S","E","R","0","0","0","1">>
PASSWORD == <<"P","A","S","S","W","O","R","D">>

SentUsernames ==
    {ADMIN001, ADMIN001 \o <<" ">>, USER0001, <<"N","O","B","O","D","Y">>}

\* the users init_database creates
SampleUsers ==
    {UserRow(1, ADMIN001, PASSWORD, TRUE),
     UserRow(2, USER0001, PASSWORD, TRUE)}

KEY_USERNAME == <<"u","s","e","r","n","a","m","e">>
KEY_PASSWORD == <<"p","a","s","s","w","o","r","d">>

\* "".join(pieces)
RECURSIVE join(_)
join(pieces) ==
    IF pieces = <<>> THEN <<>> ELSE Head(pieces) \o join(Tail(pieces))

\* the request the client sends
LoginRequest(username, password) ==
    [method |-> "POST",
     body |-> JsonBody(JDict(<< <<KEY_USERNAME, JStr(username)>>,
                                <<KEY_PASSWORD, JStr(password)>> >>)),
     query |-> <<>>]

\* data[key] of a parsed JSON object, if it is a string
dict_get(items, key) ==
    IF \E k \in 1..Len(items) : items[k][1] = key /\ items[k][2].type = "str"
    THEN Some(items[CHOOSE k \in 1..Len(items) : items[k][1] = key][2].value)
    ELSE None

USERNAME_MIN == 3
USERNAME_MAX == 50
PASSWORD_MIN == 8
PASSWORD_MAX == 128

\* UserLogin: the request body parsed into the model, or nothing (422)
UserLogin(body) ==
    LET loaded == json_loads(body)
        username == IF loaded = None THEN None ELSE dict_get(Value(loaded).items, KEY_USERNAME)
        password == IF loaded = None THEN None ELSE dict_get(Value(loaded).items, KEY_PASSWORD)
    IN  IF username = None \/ password = None THEN None
        ELSE IF \/ Len(Value(username)) < USERNAME_MIN \/ Len(Value(username)) > USERNAME_MAX
                \/ Len(Value(password)) < PASSWORD_MIN \/ Len(Value(password)) > PASSWORD_MAX
             THEN None
        ELSE Some([username |-> Value(username), password |-> Value(password)])

\* the client chooses the username of its request
TypeUsername(u) ==
    /\ login_status = ""
    /\ sent_username = <<>>
    /\ sent_username' = u
    /\ UNCHANGED <<sent_password, seen, login_status, nonLoginVars>>

\* the client adds a piece to the password of its request
TypePiece(p) ==
    /\ login_status = ""
    /\ Len(sent_password) < MaxPieces
    /\ sent_password' = Append(sent_password, p)
    /\ UNCHANGED <<sent_username, seen, login_status, nonLoginVars>>

\* the request goes through InputSanitizerMiddleware.dispatch, the body it
\* hands on is parsed into UserLogin, and login runs on the parsed fields
PostLogin ==
    /\ login_status = ""
    /\ sent_username # <<>>
    /\ LET handed == InputSanitizer_dispatch(LoginRequest(sent_username, join(sent_password)))
           user_credentials == UserLogin(handed.body)
       IN  /\ seen' = user_credentials
           /\ login_status' =
                 IF user_credentials = None THEN "422"
                 ELSE IF login(SampleUsers, Value(user_credentials).username,
                               Value(user_credentials).password, clock).access_token = None
                      THEN "401"
                      ELSE "200"
    /\ UNCHANGED <<sent_username, sent_password, nonLoginVars>>

NextLogin ==
    \/ \E u \in SentUsernames : TypeUsername(u)
    \/ \E p \in Pieces : TypePiece(p)
    \/ PostLogin

SpecLogin == Init /\ [][NextLogin]_vars

\* C29: the sanitizer does not change authentication: a login request is
\* answered with a token exactly when authenticate_user accepts the
\* username and the password as the client sent them.
C29_SanitizerKeepsAuthentication ==
    login_status # ""
    => (login_status = "200"
        <=> authenticate_user(SampleUsers, sent_username, join(sent_password)) # None)

====
